---- MODULE Spec2Model ----
(***************************************************************************)
(* The authenticated XML-RPC client wrapper that every script of the       *)
(* repository repeats: __init__, authenticate and call_model, in the       *)
(* variants of call-channel-105.py (OdooCallInitiator), debug-webrtc.py    *)
(* (OdooWebRTCTester), scripts/enhanced-clean-and-call-105.py              *)
(* (EnhancedOdooCallInitiator) and scripts/refresh-channel-cache.py        *)
(* (CacheRefresher), and the run functions that drive them.                *)
(*                                                                         *)
(* Spec     : one client object used by an arbitrary caller, who may call  *)
(*            authenticate and call_model in any order.                    *)
(* SpecRun  : one execution of a script's run function.                    *)
(***************************************************************************)
EXTENDS Integers, Sequences, FiniteSets, TLC

VARIABLES
    variant,   \* which class the client object is an instance of
    config,    \* self.config
    uid,       \* self.uid
    authLog,   \* requests received by the authentication endpoint /xmlrpc/2/common
    rpcLog,    \* requests received by the invocation endpoint /xmlrpc/2/object
    nAuth,     \* number of authenticate() calls made on the client so far
    nCalls,    \* number of call_model() calls made on the client so far
    authRet,   \* what the most recent authenticate() returned (NoCall if nothing)
    last,      \* the most recent completed operation, its inputs and its outcome
    pc,        \* position of the script's run function ("api": no script, a free caller)
    uidWrites, \* number of assignments to self.uid since __init__
    defaults,  \* call_model.__defaults__: the objects behind args=[] and kwargs={}
    server,    \* records held by the remote server: channel members, RTC sessions
    proc,      \* local variables of the script function each caller is executing
    cache      \* the local SQLite table discuss_channel of odoo_sync.db

vars == <<variant, config, uid, authLog, rpcLog, nAuth, nCalls, authRet, last, pc,
          uidWrites, defaults, server, proc, cache>>

\* what lies outside the client object
envVars == <<server, proc, cache>>

----------------------------------------------------------------------------
(* Bounds of the model. *)

\* operations (authenticate, call_model) one caller performs on the client
MaxOps == 3
\* invocations in the body of one script run
MaxRunCalls == 2
\* calls of ensure_channel_member one caller makes
MaxEnsure == 3
MaxRaceCalls == 1
MaxRows == 3
MaxMemberships == 2

----------------------------------------------------------------------------
(* Python values, tagged by type so that None, False and 0 stay distinct.  *)

PyNone == <<"None">>
PyBool(b) == <<"bool", b>>
PyInt(n) == <<"int", n>>
PyStr(s) == <<"str", s>>
PyList(s) == <<"list", s>>
PyExc(type, msg) == <<"exc", type, msg>>

\* Python truth value: `if self.uid:`, `if not self.authenticate():`
Truthy(v) ==
    CASE v[1] = "None" -> FALSE
      [] v[1] = "bool" -> v[2]
      [] v[1] = "int"  -> v[2] # 0
      [] v[1] = "str"  -> v[2] # ""
      [] OTHER         -> TRUE

----------------------------------------------------------------------------
(* The classes and their CONFIG dictionaries. *)

Variants == {"basic", "tester", "enhanced", "refresher", "fixer"}

\* the classes that define call_model
CallModelVariants == {"basic", "tester", "enhanced", "fixer"}

\* CONFIG of each script: only debug-webrtc.py and debug-webrtc-fixed.py have a
\* 'password' entry
CONFIG(v) ==
    IF v \in {"tester", "fixer"}
    THEN [database |-> "db", username |-> "user", password |-> "pw", api_key |-> "key"]
    ELSE [database |-> "db", username |-> "user", api_key |-> "key"]

\* the config entry call_model sends as the secret
SecretKey(v) == IF v \in {"tester", "fixer"} THEN "password" ELSE "api_key"

----------------------------------------------------------------------------
(* The two remote endpoints: what they may answer. *)

Value(v) == [kind |-> "value", val |-> v]
Fault(type, msg) == [kind |-> "fault", val |-> PyExc(type, msg)]

\* common.authenticate: a user id, a falsy value for rejected credentials, or a fault
AuthResponses ==
    {Value(PyInt(2)), Value(PyInt(3)), Value(PyBool(FALSE)), Value(PyInt(0)),
     Value(PyNone), Fault("ProtocolError", "502 Bad Gateway")}

\* models.execute_kw: a result, a remote fault, or a transport fault
RpcResponses ==
    {Value(PyInt(7)), Value(PyList(<<>>)),
     Fault("Fault", "field required"), Fault("OSError", "timed out")}

\* what a caller may pass to call_model: <<model, method>> and <<args, kwargs>>;
\* <<>> and {} are also the defaults args=[] and kwargs={}
Targets == {<<"modelX", "methodY">>, <<"res.users", "read">>}
Arguments ==
    {<< <<>>, {} >>,
     << <<PyInt(1), PyInt(2)>>, {<<"k", PyStr("v")>>} >>,
     << <<PyNone>>, {} >>}

----------------------------------------------------------------------------
(* xmlrpc.client.ServerProxy as the code constructs it (no allow_none).    *)

\* ServerProxy(url) marshals the parameters before anything is sent and
\* raises TypeError on a None among them
Marshallable(params) ==
    /\ params[2] # PyNone
    /\ \A i \in 1..Len(params[6]) : params[6][i] # PyNone
    /\ \A kv \in params[7] : kv[2] # PyNone

MarshalError == PyExc("TypeError", "cannot marshal None unless allow_none is enabled")

\* models.execute_kw(*params) against an endpoint that would answer resp:
\* the requests that reach the endpoint, and what the call does
ExecuteKw(params, resp) ==
    IF ~Marshallable(params)
    THEN [reqs |-> <<>>, outcome |-> "raise", val |-> MarshalError]
    ELSE [reqs    |-> <<[req |-> params, resp |-> resp]>>,
          outcome |-> IF resp.kind = "fault" THEN "raise" ELSE "return",
          val     |-> resp.val]

----------------------------------------------------------------------------
(* The client: __init__, authenticate, call_model.                         *)

\* authenticate() has not been called yet
NoCall == <<"nocall">>

\* AuthAttempt with the assignment to self.uid left out
AuthAttemptNoStore(cfg, u, secret, resp) ==
    [req |-> <<cfg.database, cfg.username, secret, {}>>,
     resp |-> resp,
     uid |-> u,
     wrote |-> FALSE,
     ok  |-> resp.kind = "value" /\ Truthy(resp.val)]

\* one `self.uid = common.authenticate(database, username, secret, {})` inside
\* try/except: the assignment happens unless the call raised, and the attempt
\* succeeds when the stored value is truthy (`if self.uid:`)
AuthAttempt(cfg, u, secret, resp) ==
    [req |-> <<cfg.database, cfg.username, secret, {}>>,
     resp |-> resp,
     uid |-> IF resp.kind = "value" THEN resp.val ELSE u,
     wrote |-> resp.kind = "value",
     ok  |-> resp.kind = "value" /\ Truthy(resp.val)]

\* AuthenticateApiKey without the try/except around the endpoint call
AuthenticateApiKeyNoTry(cfg, u, r1) ==
    [uid |-> IF r1.kind = "value" THEN r1.val ELSE u, config |-> cfg,
     reqs |-> <<[req |-> <<cfg.database, cfg.username, cfg.api_key, {}>>, resp |-> r1]>>,
     writes |-> IF r1.kind = "value" THEN 1 ELSE 0,
     outcome |-> IF r1.kind = "fault" THEN "raise" ELSE "return",
     val |-> IF r1.kind = "fault" THEN r1.val ELSE PyBool(Truthy(r1.val))]

\* authenticate of OdooCallInitiator, EnhancedOdooCallInitiator and
\* CacheRefresher: one attempt with the API key; returns True or False
AuthenticateApiKey(cfg, u, r1) ==
    LET a == AuthAttempt(cfg, u, cfg.api_key, r1)
    IN  [uid |-> a.uid, config |-> cfg,
         reqs |-> <<[req |-> a.req, resp |-> a.resp]>>,
         writes |-> IF a.wrote THEN 1 ELSE 0,
         outcome |-> "return", val |-> PyBool(a.ok)]

\* AuthenticateTester without the write to config['password']
AuthenticateTesterKeepConfig(cfg, u, r1, r2) ==
    LET a1 == AuthAttempt(cfg, u, cfg.password, r1)
        a2 == AuthAttempt(cfg, a1.uid, cfg.api_key, r2)
    IN  IF a1.ok
        THEN [uid |-> a1.uid, config |-> cfg,
              reqs |-> <<[req |-> a1.req, resp |-> a1.resp]>>,
              writes |-> IF a1.wrote THEN 1 ELSE 0,
              outcome |-> "return", val |-> PyBool(TRUE)]
        ELSE [uid |-> a2.uid, config |-> cfg,
              reqs |-> <<[req |-> a1.req, resp |-> a1.resp],
                         [req |-> a2.req, resp |-> a2.resp]>>,
              writes |-> (IF a1.wrote THEN 1 ELSE 0) + (IF a2.wrote THEN 1 ELSE 0),
              outcome |-> "return", val |-> PyBool(a2.ok)]

\* authenticate of OdooWebRTCTester: the password first, then the API key;
\* on API-key success config['password'] is overwritten with the API key
AuthenticateTester(cfg, u, r1, r2) ==
    LET a1 == AuthAttempt(cfg, u, cfg.password, r1)
        a2 == AuthAttempt(cfg, a1.uid, cfg.api_key, r2)
    IN  IF a1.ok
        THEN [uid |-> a1.uid, config |-> cfg,
              reqs |-> <<[req |-> a1.req, resp |-> a1.resp]>>,
              writes |-> IF a1.wrote THEN 1 ELSE 0,
              outcome |-> "return", val |-> PyBool(TRUE)]
        ELSE [uid |-> a2.uid,
              config |-> IF a2.ok THEN [cfg EXCEPT !.password = cfg.api_key] ELSE cfg,
              reqs |-> <<[req |-> a1.req, resp |-> a1.resp],
                         [req |-> a2.req, resp |-> a2.resp]>>,
              writes |-> (IF a1.wrote THEN 1 ELSE 0) + (IF a2.wrote THEN 1 ELSE 0),
              outcome |-> "return", val |-> PyBool(a2.ok)]

\* AuthenticateFixer without the write to config['password']
AuthenticateFixerKeepConfig(cfg, u, r1) ==
    LET a == AuthAttempt(cfg, u, cfg.api_key, r1)
    IN  [uid |-> a.uid, config |-> cfg,
         reqs |-> <<[req |-> a.req, resp |-> a.resp]>>,
         writes |-> IF a.wrote THEN 1 ELSE 0,
         outcome |-> "return", val |-> PyBool(a.ok)]

\* authenticate of OdooWebRTCFixer: one attempt with the API key; on success
\* config['password'] is overwritten with the API key
AuthenticateFixer(cfg, u, r1) ==
    LET a == AuthAttempt(cfg, u, cfg.api_key, r1)
    IN  [uid |-> a.uid,
         config |-> IF a.ok THEN [cfg EXCEPT !.password = cfg.api_key] ELSE cfg,
         reqs |-> <<[req |-> a.req, resp |-> a.resp]>>,
         writes |-> IF a.wrote THEN 1 ELSE 0,
         outcome |-> "return", val |-> PyBool(a.ok)]

authenticate(v, cfg, u, r1, r2) ==
    CASE v = "tester" -> AuthenticateTester(cfg, u, r1, r2)
      [] v = "fixer"  -> AuthenticateFixer(cfg, u, r1)
      [] OTHER        -> AuthenticateApiKey(cfg, u, r1)

\* CallParams sending the superuser id instead of self.uid
CallParamsFixedUid(v, cfg, u, model, method, args, kwargs) ==
    <<cfg.database, PyInt(1), cfg[SecretKey(v)], model, method, args, kwargs>>

\* CallParams with model and method in the wrong order
CallParamsSwapped(v, cfg, u, model, method, args, kwargs) ==
    <<cfg.database, u, cfg[SecretKey(v)], method, model, args, kwargs>>

\* the positional parameters call_model hands to execute_kw
CallParams(v, cfg, u, model, method, args, kwargs) ==
    <<cfg.database, u, cfg[SecretKey(v)], model, method, args, kwargs>>

\* Reraise raising a new exception with its own text instead of `raise e`
ReraiseWrapped(v, r) ==
    IF v \in {"tester", "enhanced", "fixer"} /\ r.outcome = "raise"
    THEN [r EXCEPT !.val = PyExc("Exception", "API call failed")]
    ELSE r

\* `except Exception as e: raise e` of OdooWebRTCTester.call_model and
\* OdooWebRTCFixer.call_model, and the same after a print in
\* EnhancedOdooCallInitiator.call_model; OdooCallInitiator has no try at all
Reraise(v, r) ==
    IF v \in {"tester", "enhanced", "fixer"} /\ r.outcome = "raise"
    THEN [r EXCEPT !.outcome = "raise", !.val = r.val]
    ELSE r

\* call_model submitting the request a second time after a fault
call_modelRetry(v, cfg, u, model, method, args, kwargs, resp) ==
    LET r == ExecuteKw(CallParams(v, cfg, u, model, method, args, kwargs), resp)
    IN  IF r.outcome = "raise" THEN [r EXCEPT !.reqs = r.reqs \o r.reqs] ELSE r

call_model(v, cfg, u, model, method, args, kwargs, resp) ==
    Reraise(v, ExecuteKw(CallParams(v, cfg, u, model, method, args, kwargs), resp))

\* DefaultsAfter with call_model appending to the list it was given
DefaultsAfterAppend(dflt, omitted) ==
    IF omitted THEN <<Append(dflt[1], PyInt(0)), dflt[2]>> ELSE dflt

\* the default objects after one call_model: the function only passes args and
\* kwargs on to execute_kw, which reads them; omitted says whether the caller
\* left both out, so that args and kwargs are the default objects themselves
DefaultsAfter(dflt, omitted) == dflt

\* CacheRefresher.test_server_filtering: execute_kw called directly with a
\* fixed search_read; any exception is caught and 0 is returned
FilterTarget == <<"discuss.channel", "search_read">>
FilterArguments ==
    << <<PyList("active=True,is_member=True")>>,
       {<<"fields", PyList("id,name,channel_type")>>} >>

\* len(channels); a result that is no list has no len(), and the TypeError
\* is caught like a fault
LenOf(val) == IF val[1] = "list" THEN PyInt(Len(val[2])) ELSE PyInt(0)

test_server_filtering(cfg, u, resp) ==
    LET r == ExecuteKw(<<cfg.database, u, cfg.api_key, FilterTarget[1], FilterTarget[2],
                         FilterArguments[1], FilterArguments[2]>>, resp)
    IN  [reqs |-> r.reqs, outcome |-> "return",
         val |-> IF r.outcome = "raise" THEN PyInt(0) ELSE LenOf(r.val)]

----------------------------------------------------------------------------
(* State changes shared by the two specifications. *)

NoOp == [op |-> "none", in |-> <<>>, sent |-> <<>>, outcome |-> "none", val |-> NoCall]

\* __init__: self.config = config, self.uid = None
InitClient ==
    /\ variant \in Variants
    /\ config = CONFIG(variant)
    /\ uid = PyNone
    /\ authLog = <<>>
    /\ rpcLog = <<>>
    /\ nAuth = 0
    /\ nCalls = 0
    /\ authRet = NoCall
    /\ last = NoOp
    /\ uidWrites = 0
    /\ defaults = << <<>>, {} >>

\* tag each request with the number of authenticate() calls made when it was sent
Stamp(reqs, n) == [i \in 1..Len(reqs) |-> [req |-> reqs[i].req, resp |-> reqs[i].resp, at |-> n]]

DoAuthenticate(r1, r2) ==
    LET a == authenticate(variant, config, uid, r1, r2)
    IN  /\ uid' = a.uid
        /\ config' = a.config
        /\ authLog' = authLog \o Stamp(a.reqs, nAuth + 1)
        /\ nAuth' = nAuth + 1
        /\ authRet' = IF a.outcome = "return" THEN a.val ELSE NoCall
        /\ last' = [op |-> "authenticate", in |-> <<>>, sent |-> a.reqs,
                    outcome |-> a.outcome, val |-> a.val]
        /\ uidWrites' = uidWrites + a.writes
        /\ UNCHANGED <<variant, rpcLog, nCalls, defaults, envVars>>

\* call_model(t[1], t[2], a[1], a[2]); omitted: called as call_model(t[1], t[2])
\* and a is the pair of default objects
CallModelStep(t, a, omitted, resp) ==
    LET r == call_model(variant, config, uid, t[1], t[2], a[1], a[2], resp)
    IN  /\ rpcLog' = rpcLog \o Stamp(r.reqs, nAuth)
        /\ nCalls' = nCalls + 1
        /\ last' = [op |-> "call_model", in |-> <<t[1], t[2], a[1], a[2]>>, sent |-> r.reqs,
                    outcome |-> r.outcome, val |-> r.val]
        /\ defaults' = DefaultsAfter(defaults, omitted)
        /\ UNCHANGED <<variant, config, uid, authLog, nAuth, authRet, uidWrites>>

DoCallModel(t, a, resp) ==
    /\ CallModelStep(t, a, FALSE, resp)
    /\ UNCHANGED envVars

DoTestServerFiltering(resp) ==
    LET r == test_server_filtering(config, uid, resp)
    IN  /\ rpcLog' = rpcLog \o Stamp(r.reqs, nAuth)
        /\ nCalls' = nCalls + 1
        /\ last' = [op |-> "test_server_filtering",
                    in |-> <<FilterTarget[1], FilterTarget[2],
                             FilterArguments[1], FilterArguments[2]>>,
                    sent |-> r.reqs, outcome |-> r.outcome, val |-> r.val]
        /\ UNCHANGED <<variant, config, uid, authLog, nAuth, authRet, uidWrites, defaults,
                       envVars>>

----------------------------------------------------------------------------
(* Spec: a caller that uses the client object freely. *)

\* nothing of the environment takes part in Spec and SpecRun
NoEnv ==
    /\ server = [channels |-> {}, members |-> {}, sessions |-> {}, nextId |-> 1, active |-> PyNone]
    /\ proc = <<>>
    /\ cache = [file |-> FALSE, rows |-> 0, rows0 |-> 0, deletes |-> 0]

Init ==
    /\ InitClient
    /\ NoEnv
    /\ pc = "api"

Authenticate ==
    /\ pc = "api"
    /\ nAuth + nCalls < MaxOps
    /\ \E r1, r2 \in AuthResponses : DoAuthenticate(r1, r2)
    /\ UNCHANGED pc

CallModel ==
    /\ pc = "api"
    /\ variant \in CallModelVariants
    /\ nAuth + nCalls < MaxOps
    /\ \E t \in Targets, a \in Arguments, resp \in RpcResponses : DoCallModel(t, a, resp)
    /\ UNCHANGED pc

\* call_model(model, method) with args and kwargs left out, as in
\* test_rtc_session_model
CallModelDefaults ==
    /\ pc = "api"
    /\ variant \in CallModelVariants
    /\ nAuth + nCalls < MaxOps
    /\ \E t \in Targets, resp \in RpcResponses :
           CallModelStep(t, defaults, TRUE, resp)
    /\ UNCHANGED <<pc, envVars>>

TestServerFiltering ==
    /\ pc = "api"
    /\ variant = "refresher"
    /\ nAuth + nCalls < MaxOps
    /\ \E resp \in RpcResponses : DoTestServerFiltering(resp)
    /\ UNCHANGED pc

Next == Authenticate \/ CallModel \/ CallModelDefaults \/ TestServerFiltering

Spec == Init /\ [][Next]_vars

----------------------------------------------------------------------------
(* SpecRun: one execution of a script's run function: run of               *)
(* OdooCallInitiator and EnhancedOdooCallInitiator, run_tests of           *)
(* OdooWebRTCTester, run_refresh of CacheRefresher.  Each is               *)
(*     if not self.authenticate(): return ...                              *)
(* followed by a body that invokes model methods.  The body is modelled as *)
(* any sequence of at most MaxRunCalls invocations, which includes the     *)
(* sequences the bodies issue.                                             *)

\* AfterAuth calling authenticate again after a failure
AfterAuthRetry(ret) == IF Truthy(ret) THEN "body" ELSE "start"

\* AfterAuth ignoring what authenticate returned
AfterAuthUnchecked(ret) == "body"

\* where run goes after authenticate() returned ret
AfterAuth(ret) == IF Truthy(ret) THEN "body" ELSE "done"

InitRun ==
    /\ InitClient
    /\ NoEnv
    /\ pc = "start"

RunAuthenticate ==
    /\ pc = "start"
    /\ \E r1, r2 \in AuthResponses : DoAuthenticate(r1, r2)
    /\ pc' = AfterAuth(authRet')

RunInvoke ==
    /\ pc = "body"
    /\ nCalls < MaxRunCalls
    /\ \/ /\ variant \in CallModelVariants
          /\ \E t \in Targets, a \in Arguments, resp \in RpcResponses : DoCallModel(t, a, resp)
       \/ /\ variant = "refresher"
          /\ \E resp \in RpcResponses : DoTestServerFiltering(resp)
    /\ UNCHANGED pc

RunReturn ==
    /\ pc = "body"
    /\ pc' = "done"
    /\ UNCHANGED <<variant, config, uid, authLog, rpcLog, nAuth, nCalls, authRet, last,
                   uidWrites, defaults, envVars>>

NextRun == RunAuthenticate \/ RunInvoke \/ RunReturn

SpecRun == InitRun /\ [][NextRun]_vars

----------------------------------------------------------------------------
(* The remote server as the scripts use it: a store of channel members and *)
(* RTC sessions behind /xmlrpc/2/object.  A request is answered from the   *)
(* store ("ok"), fails before it has any effect ("fault"), or takes effect *)
(* and the answer is lost on the way back ("replylost").                   *)

\* CONFIG['target_channel_id']
TargetChannel == 105

\* the partner of the authenticated user, and another partner
Partner == 7
OtherPartner == 8
\* another channel of the same server
OtherChannel == 106

\* how one request fares: answered, refused by the server with a fault, or
\* carried out with the reply lost on the way back; "empty" is a read or
\* search answered with no record
Modes == {"ok", "fault", "replylost"}

M_MEMBER == "discuss.channel.member"
M_SESSION == "discuss.channel.rtc.session"
M_USERS == "res.users"
M_CHANNEL == "discuss.channel"
M_BUS == "bus.bus"

\* [['channel_id', '=', channel_id], ['partner_id', '=', partner_id]]
Domain(ch, p) == <<"domain", ch, p>>
\* {'channel_id': channel_id, 'partner_id': partner_id}
MemberVals(ch, p) == <<"dict", ch, p>>
\* session_data of create_rtc_session
SessionVals(ch, m, p) == <<"dict", ch, m, p>>

RECURSIVE SortedIds(_)
SortedIds(S) ==
    IF S = {} THEN <<>>
    ELSE LET m == CHOOSE x \in S : \A y \in S : x <= y
         IN  <<m>> \o SortedIds(S \ {m})

\* the memberships of partner p in channel ch
MembersOf(srv, ch, p) == {m \in srv.members : m.channel = ch /\ m.partner = p}

\* session y satisfies a search domain: [], [['channel_id', '=', ch]] or
\* [['id', '=', session_id]]
Matches(y, dom) ==
    CASE Len(dom) = 1       -> TRUE
      [] dom[1] = "domain"  -> PyInt(y.channel) = dom[2]
      [] dom[1] = "id"      -> PyInt(y.id) = dom[2]

\* what the store answers to method t with positional arguments args
ServerResult(srv, t, args) ==
    CASE t = <<M_MEMBER, "search_read">> ->
             PyList(SortedIds({m.id : m \in MembersOf(srv, args[1][2], args[1][3])}))
      [] t = <<M_MEMBER, "create">>  -> PyInt(srv.nextId)
      [] t = <<M_MEMBER, "read">> ->
             PyList(SortedIds({m.id : m \in {x \in srv.members : PyInt(x.id) = args[1]}}))
      [] t = <<M_SESSION, "create">> -> PyInt(srv.nextId)
      [] t = <<M_SESSION, "unlink">> -> PyBool(TRUE)
      [] t[1] = M_SESSION /\ t[2] \in {"search", "search_read"} ->
             PyList(SortedIds({x.id : x \in {y \in srv.sessions :
                                  Matches(y, args[1])}}))
      [] t = <<M_SESSION, "read">> ->
             PyList(SortedIds({x.id : x \in {y \in srv.sessions :
                                  \E i \in 1..Len(args[1][2]) : args[1][2][i] = y.id}}))
      [] t = <<M_USERS, "read">> -> PyList(<<Partner>>)
      [] t[1] = M_CHANNEL /\ t[2] \in {"search", "search_read"} ->
             PyList(IF srv.channels = {} THEN <<>> ELSE <<SortedIds(srv.channels)[1]>>)
      [] t = <<M_SESSION, "fields_get">> -> PyList(<<"channel_member_id">>)
      [] t = <<M_CHANNEL, "read">> ->
             PyList(SortedIds({ch \in srv.channels : PyInt(ch) = args[1]}))
      [] OTHER -> PyBool(TRUE)

\* the store after method t with positional arguments args
ServerEffect(srv, t, args) ==
    CASE t = <<M_MEMBER, "create">> ->
             [srv EXCEPT !.members = @ \cup {[id |-> srv.nextId, channel |-> args[1][2],
                                              partner |-> args[1][3]]},
                         !.nextId = @ + 1]
      [] t = <<M_SESSION, "create">> ->
             [srv EXCEPT !.sessions = @ \cup {[id |-> srv.nextId, channel |-> args[1][2],
                                               member |-> args[1][3], partner |-> args[1][4]]},
                         !.nextId = @ + 1]
      [] t = <<M_SESSION, "unlink">> ->
             [srv EXCEPT !.sessions =
                 IF args[1][1] = "list"
                 THEN {x \in @ : \A i \in 1..Len(args[1][2]) : args[1][2][i] # x.id}
                 ELSE {x \in @ : x.id # args[1][2]}]
      [] OTHER -> srv

\* the answer the client gets
Answer(srv, t, args, mode) ==
    CASE mode = "ok"        -> Value(ServerResult(srv, t, args))
      [] mode = "empty"     -> Value(PyList(<<>>))
      [] mode = "fault"     -> Fault("Fault", "remote call failed")
      [] mode = "replylost" -> Fault("OSError", "timed out")

\* one call_model against the server: the request is built and sent by
\* call_model, the server answers and changes; the caller's locals are set
\* from last' by the step that makes the call
RemoteCall(t, args, kwargs, mode) ==
    /\ CallModelStep(t, <<args, kwargs>>, FALSE, Answer(server, t, args, mode))
    /\ server' = IF Len(last'.sent) = 1 /\ mode \in {"ok", "replylost"}
                 THEN ServerEffect(server, t, args) ELSE server
    /\ UNCHANGED <<pc, cache>>

----------------------------------------------------------------------------
(* ensure_channel_member(channel_id, partner_id) of OdooCallInitiator      *)
(* (call-channel-105.py) and EnhancedOdooCallInitiator, one RPC per step.  *)

\* `if members:` on a search_read result
NonEmpty(val) == val[1] = "list" /\ Len(val[2]) > 0

\* locals of a caller that is not inside any function
Idle(fn) ==
    [fn |-> fn, pc |-> "idle", partner |-> Partner, members |-> PyNone,
     channel_id |-> PyNone, existing |-> PyNone, before |-> {}, i |-> 0,
     result |-> <<>>, report |-> "none", counts |-> <<>>, method_results |-> <<>>,
     member_id |-> PyNone, created |-> PyNone, session_id |-> PyNone, success |-> FALSE, rets |-> <<>>]

\* ensure_channel_member returns ret: a caller that called it directly is
\* back at its top level; initiate_call goes on (or returns False)
EcmReturn(l, ret) ==
    IF l.fn = "ensure"
    THEN [l EXCEPT !.pc = "idle", !.rets = Append(@, ret)]
    ELSE IF ret = PyNone
         THEN [l EXCEPT !.pc = "done", !.member_id = ret, !.rets = Append(@, PyBool(FALSE))]
         ELSE [l EXCEPT !.pc = "crs_create", !.member_id = ret]

\* EcmAfterSearch creating a membership whatever the search returned
EcmAfterSearchAlwaysCreate(v, l, r) ==
    IF r.outcome = "raise" THEN EcmReturn(l, PyNone)
    ELSE [l EXCEPT !.pc = "ecm_create", !.members = r.val]

\* after `members = self.call_model(..., 'search_read', ...)`
EcmAfterSearch(v, l, r) ==
    IF r.outcome = "raise" THEN EcmReturn(l, PyNone)
    ELSE IF NonEmpty(r.val)
         THEN IF v = "enhanced"
              THEN [l EXCEPT !.pc = "ecm_detail", !.members = r.val,
                             !.member_id = PyInt(r.val[2][1])]
              ELSE EcmReturn([l EXCEPT !.members = r.val], PyInt(r.val[2][1]))
         ELSE [l EXCEPT !.pc = "ecm_create", !.members = r.val]

\* after the read of the member details (enhanced script only)
EcmAfterDetail(l, r) ==
    IF r.outcome = "raise" THEN EcmReturn(l, PyNone)
    ELSE EcmReturn(l, l.member_id)

\* EcmAfterCreate taking whatever came back for the new member's id
EcmAfterCreateIgnoreFault(l, r) ==
    EcmReturn([l EXCEPT !.created = r.val], r.val)

\* after `member_id = self.call_model(..., 'create', ...)`
EcmAfterCreate(l, r) ==
    IF r.outcome = "raise" THEN EcmReturn(l, PyNone)
    ELSE EcmReturn([l EXCEPT !.created = r.val], r.val)

\* a caller at its top level calls ensure_channel_member(105, partner)
EcmCall ==
    \E c \in DOMAIN proc :
        /\ proc[c].fn = "ensure"
        /\ proc[c].pc = "idle"
        /\ Len(proc[c].rets) < (IF Cardinality(DOMAIN proc) = 1
                                THEN MaxEnsure ELSE MaxRaceCalls)
        /\ proc' = [proc EXCEPT ![c].pc = "ecm_search", ![c].members = PyNone,
                                ![c].member_id = PyNone, ![c].created = PyNone]
        /\ UNCHANGED <<variant, config, uid, authLog, rpcLog, nAuth, nCalls, authRet, last,
                       pc, uidWrites, defaults, server, cache>>

EcmSearch ==
    \E c \in DOMAIN proc, mode \in Modes :
        /\ proc[c].pc = "ecm_search"
        /\ RemoteCall(<<M_MEMBER, "search_read">>,
                      <<Domain(TargetChannel, proc[c].partner)>>,
                      {<<"fields", PyList(IF variant = "enhanced"
                                          THEN "id,channel_id,partner_id" ELSE "id")>>},
                      mode)
        /\ proc' = [proc EXCEPT ![c] = EcmAfterSearch(variant, proc[c], last')]

EcmDetail ==
    \E c \in DOMAIN proc, mode \in Modes :
        /\ proc[c].pc = "ecm_detail"
        /\ RemoteCall(<<M_MEMBER, "read">>, <<proc[c].member_id>>,
                      {<<"fields", PyList("id,channel_id,partner_id,create_date")>>}, mode)
        /\ proc' = [proc EXCEPT ![c] = EcmAfterDetail(proc[c], last')]

EcmCreate ==
    \E c \in DOMAIN proc, mode \in Modes :
        /\ proc[c].pc = "ecm_create"
        /\ RemoteCall(<<M_MEMBER, "create">>,
                      <<MemberVals(TargetChannel, proc[c].partner)>>, {}, mode)
        /\ proc' = [proc EXCEPT ![c] = EcmAfterCreate(proc[c], last')]

\* a client on which authenticate() has succeeded with handle 2
AuthenticatedClient(vs) ==
    /\ variant \in vs
    /\ LET a == authenticate(variant, CONFIG(variant), PyNone, Value(PyInt(2)), Value(PyInt(2)))
       IN
        /\ config = a.config
        /\ uid = a.uid
        /\ authLog = Stamp(a.reqs, 1)
        /\ rpcLog = <<>>
        /\ nAuth = 1
        /\ nCalls = 0
        /\ authRet = a.val
        /\ last = [op |-> "authenticate", in |-> <<>>, sent |-> a.reqs,
                   outcome |-> a.outcome, val |-> a.val]
        /\ uidWrites = a.writes
        /\ defaults = << <<>>, {} >>
        /\ pc = "script"
        /\ cache = [file |-> FALSE, rows |-> 0, rows0 |-> 0, deletes |-> 0]

\* the memberships on the server before the script starts: none, the
\* caller's own, or somebody else's
InitialMembers ==
    {{}, {[id |-> 1, channel |-> TargetChannel, partner |-> Partner]},
         {[id |-> 1, channel |-> TargetChannel, partner |-> OtherPartner]}}

InitServer ==
    \E ms \in InitialMembers :
        server = [channels |-> {TargetChannel}, members |-> ms, sessions |-> {},
                  nextId |-> 2, active |-> PyNone]

NextMember == EcmCall \/ EcmSearch \/ EcmDetail \/ EcmCreate

\* SpecSeq: one caller calls ensure_channel_member up to MaxEnsure times
InitSeq ==
    /\ AuthenticatedClient({"basic", "enhanced"})
    /\ InitServer
    /\ proc = [c \in {"c1"} |-> Idle("ensure")]

SpecSeq == InitSeq /\ [][NextMember]_vars

\* SpecRace: two callers, the same script run twice at the same time with the
\* same credentials, against the same server, each calling up to
\* MaxRaceCalls times
InitRace ==
    /\ AuthenticatedClient({"basic", "enhanced"})
    /\ InitServer
    /\ proc = [c \in {"c1", "c2"} |-> Idle("ensure")]

SpecRace == InitRace /\ [][NextMember]_vars


----------------------------------------------------------------------------
(* initiate_call(channel_id, 'audio') of OdooCallInitiator                 *)
(* (call-channel-105.py), one RPC per step, with the functions it calls.   *)

\* initiate_call returns b
IcReturn(l, b) == [l EXCEPT !.pc = "done", !.rets = Append(@, PyBool(b))]

\* after the read of the user's partner_id
IcAfterUser(l, r) ==
    IF r.outcome = "raise" \/ ~NonEmpty(r.val) THEN IcReturn(l, FALSE)
    ELSE [l EXCEPT !.pc = "ic_channel", !.partner = r.val[2][1]]

\* get_channel_info and `if not channel_info: return False`
IcAfterChannel(l, r) ==
    IF r.outcome = "raise" \/ ~NonEmpty(r.val) THEN IcReturn(l, FALSE)
    ELSE [l EXCEPT !.pc = "ecm_search"]

\* CrsAfterCreate reporting success when the session create failed
CrsAfterCreateReturnTrue(l, r) ==
    IF r.outcome = "raise" \/ ~Truthy(r.val) THEN IcReturn(l, TRUE)
    ELSE [l EXCEPT !.pc = IF l.fn = "cleancall" THEN "cc_user" ELSE "scn_user",
                   !.session_id = r.val]

\* create_rtc_session and `if not session_id: return False`
CrsAfterCreate(l, r) ==
    IF r.outcome = "raise" \/ ~Truthy(r.val) THEN IcReturn(l, FALSE)
    ELSE [l EXCEPT !.pc = IF l.fn = "cleancall" THEN "cc_user" ELSE "scn_user",
                   !.session_id = r.val]

\* send_call_notification: a fault in any of its three calls makes it
\* return False, the second sendone returning makes it return True
ScnAfter(l, r, next) ==
    IF r.outcome = "raise" THEN [l EXCEPT !.pc = "chat", !.success = FALSE]
    ELSE IF next = "chat" THEN [l EXCEPT !.pc = "chat", !.success = TRUE]
    ELSE [l EXCEPT !.pc = next]

\* after send_chat_message_notification, whose result is not used:
\* `if success:` cleanup_session and return True, else return False
IcAfterChat(l, r) ==
    IF l.success THEN [l EXCEPT !.pc = "cleanup"] ELSE IcReturn(l, FALSE)

\* the data of both bus notifications
NotificationData(l) == <<"dict", l.session_id, PyInt(TargetChannel), PyInt(l.partner)>>

\* run() calls initiate_call once
IcCall ==
    \E c \in DOMAIN proc :
        /\ proc[c].fn = "initiate"
        /\ proc[c].pc = "idle"
        /\ proc[c].rets = <<>>
        /\ proc' = [proc EXCEPT ![c].pc = "ic_user"]
        /\ UNCHANGED <<variant, config, uid, authLog, rpcLog, nAuth, nCalls, authRet, last,
                       pc, uidWrites, defaults, server, cache>>

IcUser ==
    \E c \in DOMAIN proc, mode \in Modes :
        /\ proc[c].pc = "ic_user"
        /\ RemoteCall(<<M_USERS, "read">>, <<uid>>,
                      {<<"fields", PyList("partner_id,name")>>}, mode)
        /\ proc' = [proc EXCEPT ![c] = IcAfterUser(proc[c], last')]

IcChannel ==
    \E c \in DOMAIN proc, mode \in Modes :
        /\ proc[c].pc = "ic_channel"
        /\ RemoteCall(<<M_CHANNEL, "read">>, <<PyInt(TargetChannel)>>,
                      {<<"fields", PyList("id,name,channel_type,channel_member_ids")>>}, mode)
        /\ proc' = [proc EXCEPT ![c] = IcAfterChannel(proc[c], last')]

CrsCreate ==
    \E c \in DOMAIN proc, mode \in Modes :
        /\ proc[c].pc = "crs_create"
        /\ RemoteCall(<<M_SESSION, "create">>,
                      <<SessionVals(TargetChannel, proc[c].member_id, proc[c].partner)>>,
                      {}, mode)
        /\ proc' = [proc EXCEPT ![c] = CrsAfterCreate(proc[c], last')]

ScnUser ==
    \E c \in DOMAIN proc, mode \in Modes :
        /\ proc[c].pc = "scn_user"
        /\ RemoteCall(<<M_USERS, "read">>, <<uid>>,
                      {<<"fields", PyList("name,email")>>}, mode)
        /\ proc' = [proc EXCEPT ![c] = ScnAfter(proc[c], last', "scn_channel")]

ScnSendChannel ==
    \E c \in DOMAIN proc, mode \in Modes :
        /\ proc[c].pc = "scn_channel"
        /\ RemoteCall(<<M_BUS, "sendone">>,
                      <<PyStr("discuss.channel_105"),
                        PyStr("discuss.channel.rtc.session/insert"),
                        NotificationData(proc[c])>>, {}, mode)
        /\ proc' = [proc EXCEPT ![c] = ScnAfter(proc[c], last', "scn_session")]

ScnSendSession ==
    \E c \in DOMAIN proc, mode \in Modes :
        /\ proc[c].pc = "scn_session"
        /\ RemoteCall(<<M_BUS, "sendone">>,
                      <<PyStr("rtc_session_"), PyStr("rtc_session_update"),
                        NotificationData(proc[c])>>, {}, mode)
        /\ proc' = [proc EXCEPT ![c] = ScnAfter(proc[c], last', "chat")]

SendChat ==
    \E c \in DOMAIN proc, mode \in Modes :
        /\ proc[c].pc = "chat"
        /\ RemoteCall(<<M_CHANNEL, "message_post">>, <<PyInt(TargetChannel)>>,
                      {<<"body", PyStr("Audio call started from CLI")>>,
                       <<"message_type", PyStr("notification")>>}, mode)
        /\ proc' = [proc EXCEPT ![c] = IcAfterChat(proc[c], last')]

\* cleanup_session(session_id, 30): the unlink, its failure swallowed, and
\* initiate_call returns True
Cleanup ==
    \E c \in DOMAIN proc, mode \in Modes :
        /\ proc[c].pc = "cleanup"
        /\ RemoteCall(<<M_SESSION, "unlink">>, <<proc[c].session_id>>, {}, mode)
        /\ proc' = [proc EXCEPT ![c] = IcReturn(proc[c], TRUE)]

NextCall ==
    \/ IcCall \/ IcUser \/ IcChannel \/ EcmSearch \/ EcmCreate \/ CrsCreate
    \/ ScnUser \/ ScnSendChannel \/ ScnSendSession \/ SendChat \/ Cleanup

\* SpecCall: run() of call-channel-105.py after a successful authenticate,
\* against a server on which channel 105 may or may not exist
InitCall ==
    /\ AuthenticatedClient({"basic"})
    /\ \E ms \in InitialMembers, chs \in {{}, {TargetChannel}} :
           server = [channels |-> chs, members |-> ms, sessions |-> {}, nextId |-> 2, active |-> PyNone]
    /\ proc = [c \in {"c1"} |-> Idle("initiate")]

SpecCall == InitCall /\ [][NextCall]_vars


----------------------------------------------------------------------------
(* send_call_notification(channel_id, session_id, partner_id) of           *)
(* OdooCallInitiator in call-channel-105-fixed.py, one RPC per step.       *)

\* the session ids it may be called with
SessionIds == {PyInt(2), PyInt(3)}

\* send_call_notification returns b
NfReturn(l, b) == [l EXCEPT !.pc = "done", !.rets = Append(@, PyBool(b))]

\* after the read of the user's name: a fault reaches the outer except,
\* an empty answer makes the caller name 'CLI Caller'
NfAfterUser(l, r) ==
    IF r.outcome = "raise" THEN NfReturn(l, FALSE) ELSE [l EXCEPT !.pc = "nf_sendmany_"]

\* NfAfterSend going on to the next method although this one succeeded
NfAfterSendTryAll(l, r, next) ==
    IF next = "done" THEN NfReturn(l, r.outcome = "return") ELSE [l EXCEPT !.pc = next]

\* after one bus method: return True if it returned, else try the next
\* method, or return False after the last
NfAfterSend(l, r, next) ==
    IF r.outcome = "return" THEN NfReturn(l, TRUE)
    ELSE IF next = "done" THEN NfReturn(l, FALSE)
    ELSE [l EXCEPT !.pc = next]

\* notifications = [[f'discuss.channel_{channel_id}', {type, payload}]]
Notifications(l) ==
    PyList(<<PyStr("discuss.channel_105"),
             PyStr("discuss.channel.rtc.session/insert"), NotificationData(l)>>)

\* bus_message = {channel, message}
BusMessage(l) == <<"dict", PyStr("discuss.channel_105"), NotificationData(l)>>

NfCall ==
    \E c \in DOMAIN proc, sid \in SessionIds :
        /\ proc[c].fn = "notify"
        /\ proc[c].pc = "idle"
        /\ proc[c].rets = <<>>
        /\ proc' = [proc EXCEPT ![c].pc = "nf_user", ![c].session_id = sid]
        /\ UNCHANGED <<variant, config, uid, authLog, rpcLog, nAuth, nCalls, authRet, last,
                       pc, uidWrites, defaults, server, cache>>

NfUser ==
    \E c \in DOMAIN proc, mode \in Modes \cup {"empty"} :
        /\ proc[c].pc = "nf_user"
        /\ RemoteCall(<<M_USERS, "read">>, <<uid>>,
                      {<<"fields", PyList("name,email")>>}, mode)
        /\ proc' = [proc EXCEPT ![c] = NfAfterUser(proc[c], last')]

NfSendmanyPrivate ==
    \E c \in DOMAIN proc, mode \in Modes :
        /\ proc[c].pc = "nf_sendmany_"
        /\ RemoteCall(<<M_BUS, "_sendmany">>, <<Notifications(proc[c])>>, {}, mode)
        /\ proc' = [proc EXCEPT ![c] = NfAfterSend(proc[c], last', "nf_sendmany")]

NfSendmany ==
    \E c \in DOMAIN proc, mode \in Modes :
        /\ proc[c].pc = "nf_sendmany"
        /\ RemoteCall(<<M_BUS, "sendmany">>, <<Notifications(proc[c])>>, {}, mode)
        /\ proc' = [proc EXCEPT ![c] = NfAfterSend(proc[c], last', "nf_create")]

NfCreate ==
    \E c \in DOMAIN proc, mode \in Modes :
        /\ proc[c].pc = "nf_create"
        /\ RemoteCall(<<M_BUS, "create">>, <<BusMessage(proc[c])>>, {}, mode)
        /\ proc' = [proc EXCEPT ![c] = NfAfterSend(proc[c], last', "done")]

NextNotify == NfCall \/ NfUser \/ NfSendmanyPrivate \/ NfSendmany \/ NfCreate

\* SpecNotify: one call of send_call_notification on an authenticated client
InitNotify ==
    /\ AuthenticatedClient({"basic"})
    /\ InitServer
    /\ proc = [c \in {"c1"} |-> Idle("notify")]

SpecNotify == InitNotify /\ [][NextNotify]_vars


----------------------------------------------------------------------------
(* run_refresh of CacheRefresher (scripts/refresh-channel-cache.py):       *)
(* authenticate, test_server_filtering, clear_local_cache.  cache is the   *)
(* SQLite file: whether one of db_paths exists, the rows of                *)
(* discuss_channel, the rows it had when the script started, and the       *)
(* number of DELETE statements the script has executed on it.              *)

\* what the filtered search_read may answer
FilterResponses ==
    {Value(PyList(<<>>)), Value(PyList(<<105>>)), Value(PyList(<<105, 106>>)),
     Fault("Fault", "invalid field is_member"), Fault("OSError", "timed out")}

\* how the SQLite statements fare: all succeed; the first SELECT raises (no
\* such table); the DELETE raises (database locked); another writer inserts
\* a row between the commit and the second SELECT
ClearOutcomes == {"ok", "select_error", "delete_error", "refilled"}

\* `if not self.authenticate(): return False`
RfAfterAuth(ret) == IF Truthy(ret) THEN "filter" ELSE "false"

\* RfAfterFilter clearing the cache whatever the search returned
RfAfterFilterIgnoreCount(expected_count) == "clear"

\* `if expected_count == 0: return False`
RfAfterFilter(expected_count) == IF expected_count = PyInt(0) THEN "false" ELSE "clear"

\* clear_local_cache(): the cache afterwards and what it returns
clear_local_cache(ch, outcome) ==
    IF ~ch.file THEN [cache |-> ch, val |-> PyBool(FALSE)]
    ELSE CASE outcome = "ok" ->
                  [cache |-> [ch EXCEPT !.rows = 0, !.deletes = @ + 1], val |-> PyBool(TRUE)]
           [] outcome = "refilled" ->
                  [cache |-> [ch EXCEPT !.rows = 1, !.deletes = @ + 1], val |-> PyBool(FALSE)]
           [] OTHER -> [cache |-> ch, val |-> PyBool(FALSE)]

\* `if not self.clear_local_cache(): return False` ... `return True`
RfAfterClear(ret) == IF Truthy(ret) THEN "true" ELSE "false"

RfAuthenticate ==
    /\ pc = "start"
    /\ \E r1, r2 \in AuthResponses : DoAuthenticate(r1, r2)
    /\ pc' = RfAfterAuth(authRet')

RfFilter ==
    /\ pc = "filter"
    /\ \E resp \in FilterResponses : DoTestServerFiltering(resp)
    /\ pc' = RfAfterFilter(last'.val)

RfClear ==
    /\ pc = "clear"
    /\ \E outcome \in ClearOutcomes :
        LET r == clear_local_cache(cache, outcome)
        IN  /\ cache' = r.cache
            /\ pc' = RfAfterClear(r.val)
            /\ last' = [op |-> "clear_local_cache", in |-> <<>>, sent |-> <<>>,
                        outcome |-> "return", val |-> r.val]
    /\ UNCHANGED <<variant, config, uid, authLog, rpcLog, nAuth, nCalls, authRet,
                   uidWrites, defaults, server, proc>>

NextRefresh == RfAuthenticate \/ RfFilter \/ RfClear

\* SpecRefresh: one run_refresh() on a new CacheRefresher, with no database
\* file or one holding up to MaxRows channels
InitRefresh ==
    /\ InitClient
    /\ variant = "refresher"
    /\ server = [channels |-> {}, members |-> {}, sessions |-> {}, nextId |-> 1, active |-> PyNone]
    /\ proc = <<>>
    /\ \E f \in BOOLEAN, n \in 0..MaxRows :
           cache = [file |-> f, rows |-> IF f THEN n ELSE 0,
                    rows0 |-> IF f THEN n ELSE 0, deletes |-> 0]
    /\ pc = "start"

SpecRefresh == InitRefresh /\ [][NextRefresh]_vars


----------------------------------------------------------------------------
(* cleanup_existing_sessions(channel_id) of OdooCallInitiator in           *)
(* clean-and-call-105.py and of EnhancedOdooCallInitiator, and             *)
(* initiate_call of clean-and-call-105.py, which starts with it.           *)

\* what cleanup_existing_sessions may be called with: nothing (the default
\* None) or an integer
ChannelArgs == {PyNone, PyInt(0), PyInt(TargetChannel), PyInt(OtherChannel)}

\* search_domain: [] or [['channel_id', '=', channel_id]], by `if channel_id:`
SearchDomain(channel_id) ==
    IF Truthy(channel_id) THEN <<"domain", channel_id>> ELSE <<"all">>

\* cleanup_existing_sessions returns True; initiate_call drops the value
\* and goes on to the user read
CesReturn(l) ==
    IF l.fn = "cleancall" THEN [l EXCEPT !.pc = "ic_user"]
    ELSE [l EXCEPT !.pc = "done", !.rets = Append(@, PyBool(TRUE))]

\* CesAfterSearch with a fault of the search ending initiate_call
CesAfterSearchAbort(v, l, r) ==
    IF r.outcome = "raise" THEN IcReturn(l, FALSE)
    ELSE IF NonEmpty(r.val)
         THEN [l EXCEPT !.pc = IF v = "enhanced" THEN "ces_detail" ELSE "ces_unlink",
                        !.existing = r.val]
         ELSE CesReturn([l EXCEPT !.existing = r.val])

\* after `existing_sessions = self.call_model(..., 'search', [search_domain])`
CesAfterSearch(v, l, r) ==
    IF r.outcome = "raise" THEN CesReturn(l)
    ELSE IF NonEmpty(r.val)
         THEN [l EXCEPT !.pc = IF v = "enhanced" THEN "ces_detail" ELSE "ces_unlink",
                        !.existing = r.val]
         ELSE CesReturn([l EXCEPT !.existing = r.val])

\* after the read of the session details (enhanced script only)
CesAfterDetail(l, r) ==
    IF r.outcome = "raise" THEN CesReturn(l) ELSE [l EXCEPT !.pc = "ces_unlink"]

\* a caller at its top level calls cleanup_existing_sessions(ch)
CesCall ==
    \E c \in DOMAIN proc, ch \in ChannelArgs :
        /\ proc[c].fn = "cleanup"
        /\ proc[c].pc = "idle"
        /\ proc[c].rets = <<>>
        /\ proc' = [proc EXCEPT ![c].pc = "ces_search", ![c].channel_id = ch,
                                ![c].before = server.sessions]
        /\ UNCHANGED <<variant, config, uid, authLog, rpcLog, nAuth, nCalls, authRet, last,
                       pc, uidWrites, defaults, server, cache>>

\* run() calls initiate_call(105, 'audio'), whose first step is
\* cleanup_existing_sessions(105)
CcCall ==
    \E c \in DOMAIN proc :
        /\ proc[c].fn = "cleancall"
        /\ proc[c].pc = "idle"
        /\ proc[c].rets = <<>>
        /\ proc' = [proc EXCEPT ![c].pc = "ces_search", ![c].before = server.sessions,
                                ![c].channel_id = PyInt(TargetChannel)]
        /\ UNCHANGED <<variant, config, uid, authLog, rpcLog, nAuth, nCalls, authRet, last,
                       pc, uidWrites, defaults, server, cache>>

CesSearch ==
    \E c \in DOMAIN proc, mode \in Modes :
        /\ proc[c].pc = "ces_search"
        /\ RemoteCall(<<M_SESSION, "search">>, <<SearchDomain(proc[c].channel_id)>>, {}, mode)
        /\ proc' = [proc EXCEPT ![c] = CesAfterSearch(variant, proc[c], last')]

CesDetail ==
    \E c \in DOMAIN proc, mode \in Modes :
        /\ proc[c].pc = "ces_detail"
        /\ RemoteCall(<<M_SESSION, "read">>, <<proc[c].existing>>,
                      {<<"fields", PyList("id,channel_id,partner_id,create_date")>>}, mode)
        /\ proc' = [proc EXCEPT ![c] = CesAfterDetail(proc[c], last')]

CesUnlink ==
    \E c \in DOMAIN proc, mode \in Modes :
        /\ proc[c].pc = "ces_unlink"
        /\ RemoteCall(<<M_SESSION, "unlink">>, <<proc[c].existing>>, {}, mode)
        /\ proc' = [proc EXCEPT ![c] = CesReturn(proc[c])]

\* send_call_notification_message: the read of the user's name; a fault
\* ends the function, whose result initiate_call does not use
CcUser ==
    \E c \in DOMAIN proc, mode \in Modes :
        /\ proc[c].pc = "cc_user"
        /\ RemoteCall(<<M_USERS, "read">>, <<uid>>, {<<"fields", PyList("name")>>}, mode)
        /\ proc' = [proc EXCEPT ![c].pc = IF last'.outcome = "raise"
                                          THEN "cleanup" ELSE "cc_post"]

\* send_call_notification_message: the message_post
CcPost ==
    \E c \in DOMAIN proc, mode \in Modes :
        /\ proc[c].pc = "cc_post"
        /\ RemoteCall(<<M_CHANNEL, "message_post">>, <<PyInt(TargetChannel)>>,
                      {<<"body", PyStr("INCOMING AUDIO CALL")>>,
                       <<"message_type", PyStr("comment")>>,
                       <<"subject", PyStr("INCOMING AUDIO CALL")>>}, mode)
        /\ proc' = [proc EXCEPT ![c].pc = "cleanup"]

NextClean ==
    \/ CesCall \/ CcCall \/ CesSearch \/ CesDetail \/ CesUnlink
    \/ IcUser \/ IcChannel \/ EcmSearch \/ EcmCreate \/ CrsCreate
    \/ CcUser \/ CcPost \/ Cleanup

\* the RTC sessions on the server before the script starts
InitialSessions ==
    LET S(i, ch) == [id |-> i, channel |-> ch, member |-> PyInt(1), partner |-> OtherPartner]
    IN  {{}, {S(11, TargetChannel)}, {S(12, OtherChannel)},
         {S(11, TargetChannel), S(12, OtherChannel)},
         {S(11, TargetChannel), S(12, OtherChannel), S(13, TargetChannel)}}

\* SpecClean: an authenticated client on which either
\* cleanup_existing_sessions is called once, or run() of clean-and-call-105.py
\* calls initiate_call
InitClean ==
    /\ \E fn \in {"cleanup", "cleancall"} :
        /\ AuthenticatedClient(IF fn = "cleancall" THEN {"basic"} ELSE {"basic", "enhanced"})
        /\ proc = [c \in {"c1"} |-> Idle(fn)]
    /\ \E ms \in InitialMembers, ss \in InitialSessions :
           server = [channels |-> {TargetChannel}, members |-> ms, sessions |-> ss,
                     nextId |-> 2, active |-> PyNone]

SpecClean == InitClean /\ [][NextClean]_vars


----------------------------------------------------------------------------
(* cleanup_session(session_id, delay_seconds=60) of                        *)
(* EnhancedOdooCallInitiator: a countdown with a check of the session      *)
(* every ten seconds, a final check, and the unlink.                       *)

DelaySeconds == 60
CheckEvery == 10

\* [['id', '=', session_id]]
IdDomain(session_id) == <<"id", session_id>>

\* the end of one iteration of `for i in range(delay_seconds, 0, -10)`
CsNextIteration(l) ==
    IF l.i - CheckEvery > 0 THEN [l EXCEPT !.pc = "cs_check", !.i = @ - CheckEvery]
    ELSE [l EXCEPT !.pc = "cs_final", !.i = @ - CheckEvery]

\* cleanup_session returns (None)
CsReturn(l) == [l EXCEPT !.pc = "done", !.rets = Append(@, PyNone)]

\* CsAfterCheck with a fault of the check ending the function
CsAfterCheckStopOnFault(l, r) ==
    IF r.outcome = "raise" THEN CsReturn(l)
    ELSE IF NonEmpty(r.val) THEN CsNextIteration(l)
    ELSE CsReturn(l)

\* after a periodic `session_check = self.call_model(..., 'search', ...)`:
\* the bare except swallows a fault, an empty answer returns at once
CsAfterCheck(l, r) ==
    IF r.outcome = "raise" THEN CsNextIteration(l)
    ELSE IF NonEmpty(r.val) THEN CsNextIteration(l)
    ELSE CsReturn(l)

\* after `final_check = self.call_model(..., 'search_read', ...)`
CsAfterFinal(l, r) ==
    IF r.outcome = "raise" THEN CsReturn(l)
    ELSE IF NonEmpty(r.val) THEN [l EXCEPT !.pc = "cs_unlink"]
    ELSE CsReturn(l)

\* initiate_call calls cleanup_session(session_id, 60)
CsCall ==
    \E c \in DOMAIN proc :
        /\ proc[c].fn = "cleanup_session"
        /\ proc[c].pc = "idle"
        /\ proc[c].rets = <<>>
        /\ proc' = [proc EXCEPT ![c].pc = "cs_check", ![c].i = DelaySeconds]
        /\ UNCHANGED <<variant, config, uid, authLog, rpcLog, nAuth, nCalls, authRet, last,
                       pc, uidWrites, defaults, server, cache>>

CsCheck ==
    \E c \in DOMAIN proc, mode \in Modes :
        /\ proc[c].pc = "cs_check"
        /\ RemoteCall(<<M_SESSION, "search">>, <<IdDomain(proc[c].session_id)>>, {}, mode)
        /\ proc' = [proc EXCEPT ![c] = CsAfterCheck(proc[c], last')]

CsFinal ==
    \E c \in DOMAIN proc, mode \in Modes :
        /\ proc[c].pc = "cs_final"
        /\ RemoteCall(<<M_SESSION, "search_read">>, <<IdDomain(proc[c].session_id)>>,
                      {<<"fields", PyList("id,create_date")>>}, mode)
        /\ proc' = [proc EXCEPT ![c] = CsAfterFinal(proc[c], last')]

CsUnlink ==
    \E c \in DOMAIN proc, mode \in Modes :
        /\ proc[c].pc = "cs_unlink"
        /\ RemoteCall(<<M_SESSION, "unlink">>, <<proc[c].session_id>>, {}, mode)
        /\ proc' = [proc EXCEPT ![c] = CsReturn(proc[c])]

\* somebody else ends the call while the script is counting down
ExternalUnlink ==
    \E c \in DOMAIN proc, x \in server.sessions :
        /\ proc[c].pc \in {"cs_check", "cs_final", "cs_unlink"}
        /\ PyInt(x.id) = proc[c].session_id
        /\ server' = [server EXCEPT !.sessions = @ \ {x}]
        /\ UNCHANGED <<variant, config, uid, authLog, rpcLog, nAuth, nCalls, authRet, last,
                       pc, uidWrites, defaults, proc, cache>>

NextCountdown == CsCall \/ CsCheck \/ CsFinal \/ CsUnlink \/ ExternalUnlink

\* SpecCountdown: cleanup_session(2, 60) on an authenticated client, session
\* 2 being the one the script has created in channel 105
InitCountdown ==
    /\ AuthenticatedClient({"enhanced"})
    /\ server = [channels |-> {TargetChannel},
                 members |-> {[id |-> 1, channel |-> TargetChannel, partner |-> Partner]},
                 sessions |-> {[id |-> 2, channel |-> TargetChannel, member |-> PyInt(1),
                                partner |-> Partner]},
                 nextId |-> 3, active |-> PyNone]
    /\ proc = [c \in {"c1"} |-> [Idle("cleanup_session") EXCEPT !.session_id = PyInt(2)]]

SpecCountdown == InitCountdown /\ [][NextCountdown]_vars


----------------------------------------------------------------------------
(* run_analysis of QuickWebRTCFix (quick-webrtc-fix.py) after              *)
(* authenticate: analyze_rtc_issue, test_channel_member_creation,          *)
(* test_rtc_session_with_member.  The client is that of                    *)
(* call-channel-105.py.                                                    *)

\* run_analysis ends having printed report
QaEnd(l, report) == [l EXCEPT !.pc = "done", !.report = report, !.rets = Append(@, PyNone)]

\* after analyze_rtc_issue: `if 'channel_member_id' in required_fields:`;
\* a fault makes required_fields []
QaAfterAnalyze(l, r) ==
    IF r.outcome = "return" /\ NonEmpty(r.val) THEN [l EXCEPT !.pc = "tcm_user"]
    ELSE QaEnd(l, "different issue")

\* `channel_id, member_id, partner_id = self.test_channel_member_creation()`
\* and `if channel_id and member_id and partner_id:`; unpacking a tuple of
\* another length raises ValueError, which nothing catches
QaAfterMember(l, res) ==
    IF Len(res) # 3
    THEN [l EXCEPT !.pc = "raised", !.result = res,
                   !.rets = Append(@, PyExc("ValueError", "not enough values to unpack"))]
    ELSE IF \A k \in 1..3 : Truthy(res[k])
         THEN [l EXCEPT !.pc = "trs_create", !.result = res]
         ELSE QaEnd([l EXCEPT !.result = res], "member creation failed")

\* the `except Exception` of test_channel_member_creation
TcmFailed == <<PyNone, PyNone, PyNone>>

\* after the read of the user's partner_id
TcmAfterUser(l, r) ==
    IF r.outcome = "raise" \/ ~NonEmpty(r.val) THEN QaAfterMember(l, TcmFailed)
    ELSE [l EXCEPT !.pc = "tcm_channel", !.partner = r.val[2][1]]

\* after `channels = ... 'search', [[]], {'limit': 1}`: `if not channels:
\* return None, None`
TcmAfterChannel(l, r) ==
    IF r.outcome = "raise" THEN QaAfterMember(l, TcmFailed)
    ELSE IF ~NonEmpty(r.val) THEN QaAfterMember(l, <<PyNone, PyNone>>)
    ELSE [l EXCEPT !.pc = "tcm_search", !.channel_id = PyInt(r.val[2][1])]

\* after the search_read of the membership
TcmAfterSearch(l, r) ==
    IF r.outcome = "raise" THEN QaAfterMember(l, TcmFailed)
    ELSE IF NonEmpty(r.val)
         THEN QaAfterMember([l EXCEPT !.member_id = PyInt(r.val[2][1])],
                            <<l.channel_id, PyInt(r.val[2][1]), PyInt(l.partner)>>)
         ELSE [l EXCEPT !.pc = "tcm_create"]

\* after the create of the membership
TcmAfterCreate(l, r) ==
    IF r.outcome = "raise" THEN QaAfterMember(l, TcmFailed)
    ELSE QaAfterMember([l EXCEPT !.member_id = r.val],
                       <<l.channel_id, r.val, PyInt(l.partner)>>)

\* main() calls run_analysis(); authenticate has returned True
QaCall ==
    \E c \in DOMAIN proc :
        /\ proc[c].fn = "quick"
        /\ proc[c].pc = "idle"
        /\ proc[c].rets = <<>>
        /\ proc' = [proc EXCEPT ![c].pc = "qa_fields"]
        /\ UNCHANGED <<variant, config, uid, authLog, rpcLog, nAuth, nCalls, authRet, last,
                       pc, uidWrites, defaults, server, cache>>

\* analyze_rtc_issue: fields_get, called with args and kwargs left out;
\* "empty" is a server on which channel_member_id is not required
QaAnalyze ==
    \E c \in DOMAIN proc, mode \in Modes \cup {"empty"} :
        /\ proc[c].pc = "qa_fields"
        /\ RemoteCall(<<M_SESSION, "fields_get">>, <<>>, {}, mode)
        /\ proc' = [proc EXCEPT ![c] = QaAfterAnalyze(proc[c], last')]

TcmUser ==
    \E c \in DOMAIN proc, mode \in Modes :
        /\ proc[c].pc = "tcm_user"
        /\ RemoteCall(<<M_USERS, "read">>, <<uid>>, {<<"fields", PyList("partner_id")>>}, mode)
        /\ proc' = [proc EXCEPT ![c] = TcmAfterUser(proc[c], last')]

TcmChannel ==
    \E c \in DOMAIN proc, mode \in Modes :
        /\ proc[c].pc = "tcm_channel"
        /\ RemoteCall(<<M_CHANNEL, "search">>, <<PyList(<<>>)>>, {<<"limit", PyInt(1)>>}, mode)
        /\ proc' = [proc EXCEPT ![c] = TcmAfterChannel(proc[c], last')]

TcmSearch ==
    \E c \in DOMAIN proc, mode \in Modes :
        /\ proc[c].pc = "tcm_search"
        /\ RemoteCall(<<M_MEMBER, "search_read">>,
                      <<Domain(proc[c].channel_id[2], proc[c].partner)>>,
                      {<<"fields", PyList("id")>>}, mode)
        /\ proc' = [proc EXCEPT ![c] = TcmAfterSearch(proc[c], last')]

TcmCreate ==
    \E c \in DOMAIN proc, mode \in Modes :
        /\ proc[c].pc = "tcm_create"
        /\ RemoteCall(<<M_MEMBER, "create">>,
                      <<MemberVals(proc[c].channel_id[2], proc[c].partner)>>, {}, mode)
        /\ proc' = [proc EXCEPT ![c] = TcmAfterCreate(proc[c], last')]

\* test_rtc_session_with_member: the create; a fault makes it return False
TrsCreate ==
    \E c \in DOMAIN proc, mode \in Modes :
        /\ proc[c].pc = "trs_create"
        /\ RemoteCall(<<M_SESSION, "create">>,
                      <<SessionVals(proc[c].channel_id[2], proc[c].member_id, proc[c].partner)>>,
                      {}, mode)
        /\ proc' = [proc EXCEPT ![c] =
                        IF last'.outcome = "raise" THEN QaEnd(proc[c], "fix did not work")
                        ELSE [proc[c] EXCEPT !.pc = "trs_unlink", !.session_id = last'.val]]

\* test_rtc_session_with_member: the unlink of the session just created
TrsUnlink ==
    \E c \in DOMAIN proc, mode \in Modes :
        /\ proc[c].pc = "trs_unlink"
        /\ RemoteCall(<<M_SESSION, "unlink">>, <<proc[c].session_id>>, {}, mode)
        /\ proc' = [proc EXCEPT ![c] =
                        IF last'.outcome = "raise" THEN QaEnd(proc[c], "fix did not work")
                        ELSE QaEnd(proc[c], "solution confirmed")]

NextQuick ==
    \/ QaCall \/ QaAnalyze \/ TcmUser \/ TcmChannel \/ TcmSearch \/ TcmCreate
    \/ TrsCreate \/ TrsUnlink

\* SpecQuick: run_analysis on an authenticated client, against a server with
\* no channel, one or two
InitQuick ==
    /\ AuthenticatedClient({"basic"})
    /\ \E ms \in InitialMembers, chs \in {{}, {TargetChannel}, {TargetChannel, OtherChannel}} :
           server = [channels |-> chs, members |-> ms, sessions |-> {}, nextId |-> 2, active |-> PyNone]
    /\ proc = [c \in {"c1"} |-> Idle("quick")]

SpecQuick == InitQuick /\ [][NextQuick]_vars


----------------------------------------------------------------------------
(* test_channel_memberships(partner_id) of ChannelFilterTester             *)
(* (scripts/test-channel-filtering.py).  Its client is that of the         *)
(* enhanced script: call_model prints and re-raises.                       *)

\* a many2one value as XML-RPC delivers it: [id, display_name]
Many2One(id) == PyList(<<PyInt(id), PyStr("channel")>>)

\* the fold_state values a membership record may carry: the three states,
\* or False, None or '' for no value
FoldStates ==
    {PyStr("open"), PyStr("folded"), PyStr("closed"), PyBool(FALSE), PyNone, PyStr("")}

\* the records search_read may return
MembershipRecords ==
    [channel_id : {Many2One(TargetChannel), Many2One(OtherChannel), PyInt(OtherChannel)},
     fold_state : FoldStates]

RECURSIVE SeqsUpTo(_, _)
SeqsUpTo(S, n) ==
    IF n = 0 THEN {<<>>}
    ELSE LET shorter == SeqsUpTo(S, n - 1)
         IN  shorter \cup {Append(q, x) : q \in shorter, x \in S}

MembershipResponses ==
    {Value(PyList(ms)) : ms \in SeqsUpTo(MembershipRecords, MaxMemberships)}
        \cup {Fault("Fault", "access denied")}

\* `member['channel_id'][0] if isinstance(member['channel_id'], list) else
\* member['channel_id']`
ChannelIdOf(member) ==
    IF member.channel_id[1] = "list" THEN member.channel_id[2][1] ELSE member.channel_id

\* FoldOrOpen taking a membership without fold_state for a closed one
FoldOrClosed(f) == IF Truthy(f) THEN f ELSE PyStr("closed")

\* `member['fold_state'] or 'open'`
FoldOrOpen(f) == IF Truthy(f) THEN f ELSE PyStr("open")

\* `fold_state_counts[fold_state] += 1` on a defaultdict(int)
Increment(counts, k) ==
    IF k \in DOMAIN counts THEN [counts EXCEPT ![k] = @ + 1] ELSE counts @@ (k :> 1)

\* the loop over memberships from index i on, with the counts and the
\* visible channels so far
RECURSIVE MembershipLoop(_, _, _, _)
MembershipLoop(ms, i, counts, visible) ==
    IF i > Len(ms) THEN [counts |-> counts, visible |-> visible]
    ELSE LET fold_state == FoldOrOpen(ms[i].fold_state)
             is_visible == fold_state # PyStr("closed")
         IN  MembershipLoop(ms, i + 1, Increment(counts, fold_state),
                            IF is_visible THEN Append(visible, ChannelIdOf(ms[i]))
                            ELSE visible)

\* after the search_read: a fault leaves test_channel_memberships as an
\* exception, a result is looped over and the visible channels returned
FtAfterSearch(l, r) ==
    IF r.outcome = "raise"
    THEN [l EXCEPT !.pc = "raised", !.rets = Append(@, r.val)]
    ELSE LET out == MembershipLoop(r.val[2], 1, <<>>, <<>>)
         IN  [l EXCEPT !.pc = "done", !.existing = r.val, !.counts = out.counts,
                       !.result = out.visible, !.rets = Append(@, PyList(out.visible))]

\* run_test calls test_channel_memberships(partner_id)
FtCall ==
    \E c \in DOMAIN proc :
        /\ proc[c].fn = "filter"
        /\ proc[c].pc = "idle"
        /\ proc[c].rets = <<>>
        /\ proc' = [proc EXCEPT ![c].pc = "ft_search"]
        /\ UNCHANGED <<variant, config, uid, authLog, rpcLog, nAuth, nCalls, authRet, last,
                       pc, uidWrites, defaults, server, cache>>

FtSearch ==
    \E c \in DOMAIN proc, resp \in MembershipResponses :
        /\ proc[c].pc = "ft_search"
        /\ CallModelStep(<<M_MEMBER, "search_read">>,
                         << <<PyList(<<PyStr("partner_id"), PyStr("="), PyInt(proc[c].partner)>>)>>,
                            {<<"fields", PyList("id,channel_id,partner_id,fold_state,unpin_dt")>>} >>,
                         FALSE, resp)
        /\ proc' = [proc EXCEPT ![c] = FtAfterSearch(proc[c], last')]
        /\ UNCHANGED <<pc, server, cache>>

NextFilter == FtCall \/ FtSearch

\* SpecFilter: test_channel_memberships on an authenticated client, for any
\* answer of up to MaxMemberships records
InitFilter ==
    /\ AuthenticatedClient({"enhanced"})
    /\ InitServer
    /\ proc = [c \in {"c1"} |-> Idle("filter")]

SpecFilter == InitFilter /\ [][NextFilter]_vars


----------------------------------------------------------------------------
(* test_channel_methods of OdooWebRTCTester (debug-webrtc.py).  The text   *)
(* of a fault is a sequence of fragments, and `x in str(e)` is true when   *)
(* one of them is x.                                                       *)

methods_to_test ==
    <<"rtc_join_call", "rtc_leave_call", "mobile_start_webrtc_call",
      "mobile_answer_webrtc_call">>

\* what the server may answer to a probe: a result, the fault for an unknown
\* method, a fault for another reason, and a fault about a missing record
ProbeResponses ==
    {Value(PyBool(TRUE)),
     Fault("Fault", <<"The method ", "does not exist", " on the model">>),
     Fault("Fault", <<"Access Denied">>),
     Fault("Fault", <<"Record ", "does not exist", " or has been deleted">>)}

\* `needle in str(e)`
Contains(e, needle) == \E k \in 1..Len(e[3]) : e[3][k] = needle

\* TmAfterProbe recording every method whose call faulted as missing
TmAfterProbeAnyFault(l, r) ==
    LET m == methods_to_test[l.i]
        l2 == [l EXCEPT !.method_results = (m :> (r.outcome # "raise")) @@ @]
    IN  IF l.i < Len(methods_to_test) THEN [l2 EXCEPT !.i = @ + 1]
        ELSE [l2 EXCEPT !.pc = "done",
                        !.rets = Append(@, PyBool(\E x \in DOMAIN l2.method_results :
                                                      l2.method_results[x]))]

\* one iteration of `for method in methods_to_test`, and after the last
\* `return any(method_results.values())`
TmAfterProbe(l, r) ==
    LET m == methods_to_test[l.i]
        exists == IF r.outcome = "raise" THEN ~Contains(r.val, "does not exist") ELSE TRUE
        l2 == [l EXCEPT !.method_results = (m :> exists) @@ @]
    IN  IF l.i < Len(methods_to_test) THEN [l2 EXCEPT !.i = @ + 1]
        ELSE [l2 EXCEPT !.pc = "done",
                        !.rets = Append(@, PyBool(\E x \in DOMAIN l2.method_results :
                                                      l2.method_results[x]))]

\* after the search_read of a test channel: a fault reaches the outer
\* except, `if not channels: return False`
TmAfterChannel(l, r) ==
    IF r.outcome = "raise" \/ ~NonEmpty(r.val)
    THEN [l EXCEPT !.pc = "done", !.rets = Append(@, PyBool(FALSE))]
    ELSE [l EXCEPT !.pc = "tm_probe", !.i = 1, !.channel_id = PyInt(r.val[2][1])]

\* run_tests calls test_channel_methods()
TmCall ==
    \E c \in DOMAIN proc :
        /\ proc[c].fn = "probe"
        /\ proc[c].pc = "idle"
        /\ proc[c].rets = <<>>
        /\ proc' = [proc EXCEPT ![c].pc = "tm_channel"]
        /\ UNCHANGED <<variant, config, uid, authLog, rpcLog, nAuth, nCalls, authRet, last,
                       pc, uidWrites, defaults, server, cache>>

TmChannel ==
    \E c \in DOMAIN proc, mode \in Modes :
        /\ proc[c].pc = "tm_channel"
        /\ RemoteCall(<<M_CHANNEL, "search_read">>, <<PyList(<<>>)>>,
                      {<<"fields", PyList("id,name,channel_type")>>, <<"limit", PyInt(1)>>},
                      mode)
        /\ proc' = [proc EXCEPT ![c] = TmAfterChannel(proc[c], last')]

\* `self.call_model('discuss.channel', method, [channel['id']])`
TmProbe ==
    \E c \in DOMAIN proc, resp \in ProbeResponses :
        /\ proc[c].pc = "tm_probe"
        /\ CallModelStep(<<M_CHANNEL, methods_to_test[proc[c].i]>>,
                         << <<proc[c].channel_id>>, {} >>, FALSE, resp)
        /\ proc' = [proc EXCEPT ![c] = TmAfterProbe(proc[c], last')]
        /\ UNCHANGED <<pc, server, cache>>

NextProbe == TmCall \/ TmChannel \/ TmProbe

\* SpecProbe: test_channel_methods on an authenticated tester, against a
\* server with or without a channel
InitProbe ==
    /\ AuthenticatedClient({"tester"})
    /\ \E chs \in {{}, {TargetChannel}} :
           server = [channels |-> chs, members |-> {}, sessions |-> {}, nextId |-> 2, active |-> PyNone]
    /\ proc = [c \in {"c1"} |-> Idle("probe")]

SpecProbe == InitProbe /\ [][NextProbe]_vars


----------------------------------------------------------------------------
(* mobile_start_webrtc_call(channel_id, call_type) of DiscussChannelWebRTC *)
(* (ideas/odoo-webrtc-backend-fix.py), run inside the server, one ORM call *)
(* per step.  server.active is the active_webrtc_session of channel 105.   *)
(* What the method has written stays when it returns and is rolled back    *)
(* when an exception leaves it.                                            *)

\* how an ORM call fares
OrmOutcomes == {"ok", "raise"}

\* the method returns a dict whose session_id is sid
MsReturn(l, sid) == [l EXCEPT !.pc = "done", !.rets = Append(@, sid)]

\* an exception leaves the method
MsRaise(l) ==
    [l EXCEPT !.pc = "raised", !.rets = Append(@, PyExc("ValidationError", "request failed"))]

MsCall ==
    \E c \in DOMAIN proc, ch \in {TargetChannel, OtherChannel} :
        /\ proc[c].fn = "mobile_start"
        /\ proc[c].pc = "idle"
        /\ proc[c].rets = <<>>
        /\ proc' = [proc EXCEPT ![c].pc = "ms_exists", ![c].channel_id = PyInt(ch),
                                ![c].before = server]
        /\ UNCHANGED <<variant, config, uid, authLog, rpcLog, nAuth, nCalls, authRet, last,
                       pc, uidWrites, defaults, server, cache>>

\* `if not channel.exists(): raise ValidationError`
MsExists ==
    \E c \in DOMAIN proc :
        /\ proc[c].pc = "ms_exists"
        /\ proc' = [proc EXCEPT ![c] = IF proc[c].channel_id[2] \in server.channels
                                       THEN [@ EXCEPT !.pc = "ms_create"] ELSE MsRaise(@)]
        /\ UNCHANGED <<variant, config, uid, authLog, rpcLog, nAuth, nCalls, authRet, last,
                       pc, uidWrites, defaults, server, cache>>

\* `rtc_session = self.env['mail.rtc.session'].create({...})`
MsCreate ==
    \E c \in DOMAIN proc, o \in OrmOutcomes :
        /\ proc[c].pc = "ms_create"
        /\ IF o = "ok"
           THEN /\ server' = [server EXCEPT
                                !.sessions = @ \cup {[id |-> server.nextId,
                                                      channel |-> proc[c].channel_id[2],
                                                      member |-> PyNone, partner |-> Partner]},
                                !.nextId = @ + 1]
                /\ proc' = [proc EXCEPT ![c].pc = "ms_active",
                                        ![c].created = PyInt(server.nextId)]
           ELSE /\ server' = server
                /\ proc' = [proc EXCEPT ![c].pc = "ms_fallback"]
        /\ UNCHANGED <<variant, config, uid, authLog, rpcLog, nAuth, nCalls, authRet, last,
                       pc, uidWrites, defaults, cache>>

\* `channel.active_webrtc_session = rtc_session.id`
MsSetActive ==
    \E c \in DOMAIN proc, o \in OrmOutcomes :
        /\ proc[c].pc = "ms_active"
        /\ IF o = "ok"
           THEN /\ server' = [server EXCEPT !.active = proc[c].created]
                /\ proc' = [proc EXCEPT ![c].pc = "ms_post"]
           ELSE /\ server' = server
                /\ proc' = [proc EXCEPT ![c].pc = "ms_fallback"]
        /\ UNCHANGED <<variant, config, uid, authLog, rpcLog, nAuth, nCalls, authRet, last,
                       pc, uidWrites, defaults, cache>>

\* `channel.message_post(...)` of the try body
MsPost ==
    \E c \in DOMAIN proc, o \in OrmOutcomes :
        /\ proc[c].pc = "ms_post"
        /\ proc' = [proc EXCEPT ![c].pc = IF o = "ok" THEN "ms_sendone" ELSE "ms_fallback"]
        /\ UNCHANGED <<variant, config, uid, authLog, rpcLog, nAuth, nCalls, authRet, last,
                       pc, uidWrites, defaults, server, cache>>

\* `self.env['bus.bus']._sendone(...)` and the return of the session id
MsSendone ==
    \E c \in DOMAIN proc, o \in OrmOutcomes :
        /\ proc[c].pc = "ms_sendone"
        /\ proc' = [proc EXCEPT ![c] = IF o = "ok" THEN MsReturn(@, @.created)
                                       ELSE [@ EXCEPT !.pc = "ms_fallback"]]
        /\ UNCHANGED <<variant, config, uid, authLog, rpcLog, nAuth, nCalls, authRet, last,
                       pc, uidWrites, defaults, server, cache>>

\* the except branch: the fallback message_post and the return of
\* session_id None; if the post raises the request fails and its
\* transaction is rolled back
MsFallback ==
    \E c \in DOMAIN proc, o \in OrmOutcomes :
        /\ proc[c].pc = "ms_fallback"
        /\ IF o = "ok"
           THEN /\ proc' = [proc EXCEPT ![c] = MsReturn(@, PyNone)]
                /\ server' = server
           ELSE /\ proc' = [proc EXCEPT ![c] = MsRaise(@)]
                /\ server' = proc[c].before
        /\ UNCHANGED <<variant, config, uid, authLog, rpcLog, nAuth, nCalls, authRet, last,
                       pc, uidWrites, defaults, cache>>

NextBackend ==
    MsCall \/ MsExists \/ MsCreate \/ MsSetActive \/ MsPost \/ MsSendone \/ MsFallback

\* SpecBackend: one mobile_start_webrtc_call on a server that holds channel
\* 105, some RTC sessions, and possibly an active session for the channel
InitBackend ==
    /\ AuthenticatedClient({"basic"})
    /\ \E ss \in InitialSessions, act \in {PyNone, PyInt(11)} :
           /\ act # PyNone => \E x \in ss : PyInt(x.id) = act
           /\ server = [channels |-> {TargetChannel}, members |-> {}, sessions |-> ss,
                        nextId |-> 2, active |-> act]
    /\ proc = [c \in {"c1"} |-> [Idle("mobile_start") EXCEPT !.before = server]]

SpecBackend == InitBackend /\ [][NextBackend]_vars

----------------------------------------------------------------------------
(* Properties. *)

\* the endpoint did not grant a handle: a fault, or a falsy value
Rejected(resp) == resp.kind = "fault" \/ ~Truthy(resp.val)

\* some authentication request of this client was granted a handle
EverAuthenticated == \E i \in 1..Len(authLog) : ~Rejected(authLog[i].resp)

\* the last authenticate() call: every attempt it made was rejected
LastAuthRejected ==
    /\ last.op = "authenticate"
    /\ \A i \in 1..Len(last.sent) : Rejected(last.sent[i].resp)

\* the last authenticate() call: its final attempt was granted a handle
LastAuthGranted ==
    /\ last.op = "authenticate"
    /\ ~Rejected(last.sent[Len(last.sent)].resp)

\* the value the authentication endpoint returned to the latest request
Granted == authLog[Len(authLog)].resp.val

\* C1 (as claimed): call_model on a client on which no authenticate has yet
\* succeeded raises and submits no request to the invocation endpoint.
C1_InvokeBeforeAuthFails ==
    (last.op = "call_model" /\ ~EverAuthenticated)
        => (last.outcome = "raise" /\ last.sent = <<>>)

\* C2: while the latest authenticate() is a successful one, the stored handle is
\* the value the authentication endpoint returned, and every request sent
\* since then, whatever its answer, carries exactly that value as uid.
C2_HandleUnchanged ==
    authRet = PyBool(TRUE) =>
        /\ uid = Granted
        /\ \A i \in 1..Len(rpcLog) : rpcLog[i].at = nAuth => rpcLog[i].req[2] = Granted

C2_Witness ==
    /\ authRet = PyBool(TRUE)
    /\ Len(rpcLog) >= 2
    /\ rpcLog[1].at = nAuth
    /\ rpcLog[1].resp.kind = "fault"
    /\ rpcLog[2].resp.kind = "value"

\* C3 (as claimed): after an authenticate() whose credentials the endpoint
\* rejected, on a client that never was granted a handle, self.uid is still
\* None, its value after __init__.
C3_RejectedStoresNoHandle ==
    (LastAuthRejected /\ ~EverAuthenticated) => uid = PyNone

\* C4 (as claimed): authenticate raises AuthenticationError when the endpoint
\* returns no handle and when the endpoint call raises a fault.
C4_RaisesAuthenticationError ==
    LastAuthRejected => (last.outcome = "raise" /\ last.val[2] = "AuthenticationError")

\* C4 (amended): in both failure cases authenticate raises nothing and
\* returns False.
C4_FailureReturnsFalse ==
    LastAuthRejected => (last.outcome = "return" /\ last.val = PyBool(FALSE))

C4_Witness ==
    /\ LastAuthRejected
    /\ Len(last.sent) = 2
    /\ last.sent[1].resp.kind = "value"
    /\ last.sent[2].resp.kind = "fault"
    /\ last.val = PyBool(FALSE)

\* C5 (as claimed): on success authenticate stores the handle the endpoint
\* returned and returns that same handle.
C5_ReturnsHandle ==
    LastAuthGranted => (uid = Granted /\ last.val = Granted)

\* C5 (amended): on success authenticate stores the handle the endpoint
\* returned and returns True.
C5_StoresHandleReturnsTrue ==
    LastAuthGranted =>
        (uid = Granted /\ last.outcome = "return" /\ last.val = PyBool(TRUE))

C5_Witness ==
    /\ LastAuthGranted
    /\ uid = PyInt(3)
    /\ last.val = PyBool(TRUE)

\* C6: every request call_model (or test_server_filtering) submits is exactly
\* <<database, self.uid, secret, model, method, args, kwargs>>, with the
\* model, method, args and kwargs it was called with.
C6_PayloadExact ==
    last.op \in {"call_model", "test_server_filtering"} =>
        \A i \in 1..Len(last.sent) :
            /\ Len(last.sent[i].req) = 7
            /\ last.sent[i].req =
                   <<CONFIG(variant).database, uid, config[SecretKey(variant)],
                     last.in[1], last.in[2], last.in[3], last.in[4]>>
            /\ rpcLog[Len(rpcLog)].req = last.sent[i].req

C6_Witness ==
    /\ last.op = "call_model"
    /\ last.in = <<"modelX", "methodY", <<PyInt(1), PyInt(2)>>, {<<"k", PyStr("v")>>}>>
    /\ Len(last.sent) = 1
    /\ last.sent[1].req[2] = PyInt(2)

\* C7: when the invocation endpoint answers a fault, call_model raises, and what
\* it raises is the endpoint's fault itself, type and message unchanged, in the
\* classes with the try/except re-raise and in the one without.
C7_FaultUnchanged ==
    (last.op = "call_model" /\ Len(last.sent) >= 1 /\ last.sent[1].resp.kind = "fault")
        => (last.outcome = "raise" /\ last.val = last.sent[1].resp.val)

C7_Witness ==
    /\ variant = "enhanced"
    /\ last.op = "call_model"
    /\ Len(last.sent) = 1
    /\ last.sent[1].resp = Fault("Fault", "field required")
    /\ last.val = PyExc("Fault", "field required")

\* C8 (as claimed): each call of call_model submits exactly one request.
C8_ExactlyOneRpc ==
    last.op = "call_model" => Len(last.sent) = 1

\* C8 (amended): each call of call_model submits at most one request, whether
\* the answer is a result or a fault: exactly one, unless the parameters cannot
\* be marshalled (self.uid still None, or a None among the arguments), and
\* then none.
C8_OneRpcUnlessUnmarshallable ==
    /\ last.op = "call_model" =>
           Len(last.sent) =
               IF \/ uid = PyNone
                  \/ \E i \in 1..Len(last.in[3]) : last.in[3][i] = PyNone
                  \/ \E kv \in last.in[4] : kv[2] = PyNone
               THEN 0 ELSE 1
    /\ Len(rpcLog) <= nCalls

C8_Witness ==
    /\ last.op = "call_model"
    /\ Len(last.sent) = 1
    /\ last.sent[1].resp.kind = "fault"
    /\ nCalls = 2
    /\ Len(rpcLog) = 2

\* C9 (as claimed): a run sends at most one authentication request.
C9_OneAuthRequest ==
    Len(authLog) <= 1

\* C9 (amended): a run calls authenticate() once; that call sends one
\* authentication request, except in debug-webrtc.py, where a rejected or
\* faulted password request is followed by one request with the API key.
C9_OneAuthCall ==
    /\ nAuth <= 1
    /\ Len(authLog) <= (IF variant = "tester" THEN 2 ELSE 1)
    /\ Len(authLog) = 2 =>
           /\ Rejected(authLog[1].resp)
           /\ authLog[1].req[3] = CONFIG(variant).password
           /\ authLog[2].req[3] = CONFIG(variant).api_key

C9_Witness ==
    /\ pc = "done"
    /\ Len(authLog) = 2
    /\ authLog[1].resp.kind = "fault"
    /\ Rejected(authLog[2].resp)

\* C10: in a run no request reaches the invocation endpoint, and no invocation
\* is attempted, unless the run's single authenticate() returned True; a run in
\* which it returned False ends with no invocation made.
C10_AuthBeforeInvoke ==
    /\ nCalls > 0 => (nAuth = 1 /\ authRet = PyBool(TRUE))
    /\ \A i \in 1..Len(rpcLog) : rpcLog[i].at = 1
    /\ (pc = "done" /\ authRet = PyBool(FALSE)) => (nCalls = 0 /\ rpcLog = <<>>)
    /\ pc = "body" => authRet = PyBool(TRUE)

C10_Witness ==
    /\ pc = "done"
    /\ authRet = PyBool(TRUE)
    /\ nCalls = 2
    /\ Len(rpcLog) = 2

\* C11 (as claimed): once a handle is stored, neither a call_model nor a further
\* authenticate() that the endpoint rejects clears or replaces it.
C11_HandleNeverReplaced ==
    [][(Truthy(uid) /\ (last'.op = "authenticate" => LastAuthRejected')) => uid' = uid]_vars

\* C12 (as claimed): in a run self.uid is assigned exactly once, by the
\* successful authenticate, and never a second time.
C12_HandleWrittenOnce ==
    /\ uidWrites <= 1
    /\ uidWrites = 1 => authRet = PyBool(TRUE)
    /\ authRet = PyBool(TRUE) => uidWrites = 1

\* C13 (as claimed): no operation of the client modifies self.config.
C13_CredentialsImmutable ==
    config = CONFIG(variant)

\* the authentication endpoint has accepted the API key of this client
ApiKeyAccepted ==
    \E i \in 1..Len(authLog) :
        authLog[i].req[3] = CONFIG(variant).api_key /\ ~Rejected(authLog[i].resp)

\* C13 (amended): database, username and API key are never modified and no
\* entry is added or removed; the one entry that changes is config['password']
\* in debug-webrtc.py and debug-webrtc-fixed.py, which holds the API key from
\* the moment an authenticate() succeeded with the API key.
C13_OnlyPasswordRewritten ==
    /\ DOMAIN config = DOMAIN CONFIG(variant)
    /\ config.database = CONFIG(variant).database
    /\ config.username = CONFIG(variant).username
    /\ config.api_key = CONFIG(variant).api_key
    /\ variant \notin {"tester", "fixer"} => config = CONFIG(variant)
    /\ variant \in {"tester", "fixer"} =>
           config.password = IF ApiKeyAccepted THEN CONFIG(variant).api_key
                             ELSE CONFIG(variant).password

C13_Witness ==
    /\ variant = "fixer"
    /\ last.op = "authenticate"
    /\ last.val = PyBool(TRUE)
    /\ config.password = "key"

\* C14: call_model leaves self.uid, self.config and the default objects of
\* args and kwargs as they were, so a call that omits args and kwargs always
\* receives [] and {} whatever the calls before it were given.
C14_NoCrossCallLeak ==
    /\ [](defaults = << <<>>, {} >>)
    /\ [][(nCalls' = nCalls + 1 /\ last'.op = "call_model")
             => (uid' = uid /\ config' = config /\ defaults' = defaults)]_vars

C14_Witness ==
    /\ Len(rpcLog) = 2
    /\ nCalls = 2
    /\ rpcLog[1].req[6] = <<PyInt(1), PyInt(2)>>
    /\ rpcLog[2].req[6] = <<>>
    /\ rpcLog[2].req[7] = {}
    /\ defaults = << <<>>, {} >>

\* the memberships of the caller's partner in the target channel
OwnMembers == MembersOf(server, TargetChannel, Partner)

\* C15: ensure_channel_member decides on its own search alone: it issues the
\* create exactly when that search returned no record, whatever has been
\* created since, and every create that is answered has added a record of
\* its own; so two callers whose searches both returned nothing leave two
\* membership records for the same channel and partner.
C15_CheckThenAct ==
    /\ \A c \in DOMAIN proc :
        /\ proc[c].pc = "ecm_create" => proc[c].members = PyList(<<>>)
        /\ proc[c].pc = "ecm_detail" => NonEmpty(proc[c].members)
        /\ proc[c].created # PyNone =>
               /\ proc[c].members = PyList(<<>>)
               /\ \E m \in OwnMembers : PyInt(m.id) = proc[c].created
    /\ \A c, d \in DOMAIN proc :
        (c # d /\ proc[c].created # PyNone /\ proc[d].created # PyNone) =>
            (proc[c].created # proc[d].created /\ Cardinality(OwnMembers) >= 2)

\* both callers called once, both searches were empty, both creates went through
C15_Witness ==
    /\ \A c \in DOMAIN proc :
        /\ Len(proc[c].rets) = 1
        /\ proc[c].members = PyList(<<>>)
        /\ proc[c].created # PyNone
        /\ proc[c].rets[1] = proc[c].created
    /\ Cardinality(DOMAIN proc) = 2
    /\ Cardinality(OwnMembers) = 2

\* C16 (as claimed): with one caller at most one membership of the pair
\* exists, and every call returns the id of that membership.
C16_EveryCallReturnsId ==
    /\ Cardinality(OwnMembers) <= 1
    /\ \A c \in DOMAIN proc : \A i \in 1..Len(proc[c].rets) :
           /\ proc[c].rets[i] # PyNone
           /\ \E m \in OwnMembers : PyInt(m.id) = proc[c].rets[i]

\* C16 (amended): with one caller the create is issued only when the search
\* returned no record and none exists, at most one membership of the pair
\* ever exists, and every call that returns an id returns the id of that
\* membership; a call returns None only when one of its requests faulted.
C16_IdempotentUnlessFault ==
    /\ Cardinality(OwnMembers) <= 1
    /\ \A c \in DOMAIN proc :
        /\ proc[c].pc = "ecm_create" => (proc[c].members = PyList(<<>>) /\ OwnMembers = {})
        /\ \A i \in 1..Len(proc[c].rets) :
               proc[c].rets[i] # PyNone =>
                   \E m \in OwnMembers : PyInt(m.id) = proc[c].rets[i]
        /\ (proc[c].pc = "idle" /\ Len(proc[c].rets) > 0
               /\ proc[c].rets[Len(proc[c].rets)] = PyNone)
           => (last.op = "call_model" /\ last.outcome = "raise")

\* three calls: the first created membership 2, the others found it
C16_Witness ==
    /\ proc["c1"].rets = <<PyInt(2), PyInt(2), PyInt(2)>>
    /\ OwnMembers = {[id |-> 2, channel |-> TargetChannel, partner |-> Partner]}

\* the requests that reached the server for method t
Requests(t) == {i \in 1..Len(rpcLog) : rpcLog[i].req[4] = t[1] /\ rpcLog[i].req[5] = t[2]}

\* C17: when ensure_channel_member created a membership and the following
\* create_rtc_session failed, initiate_call returned False, the membership
\* is still on the server, and no request of the run deletes a membership.
C17_NoRollback ==
    /\ Requests(<<M_MEMBER, "unlink">>) = {}
    /\ \A c \in DOMAIN proc :
        (proc[c].fn = "initiate" /\ proc[c].pc = "done" /\ proc[c].created # PyNone
            /\ proc[c].session_id = PyNone)
        => /\ proc[c].rets = <<PyBool(FALSE)>>
           /\ \E m \in OwnMembers : PyInt(m.id) = proc[c].created
           /\ rpcLog[Len(rpcLog)].req[4] = M_SESSION
           /\ rpcLog[Len(rpcLog)].req[5] = "create"

\* initiate_call created membership 2, the session create faulted, it returned
C17_Witness ==
    /\ proc["c1"].fn = "initiate"
    /\ proc["c1"].pc = "done"
    /\ proc["c1"].created = PyInt(2)
    /\ proc["c1"].session_id = PyNone
    /\ last.in[1] = M_SESSION
    /\ last.outcome = "raise"
    /\ server.sessions = {}

\* C19: whenever initiate_call has returned after create_rtc_session gave it
\* a session id, an unlink of that session has been requested.
C19_SessionAlwaysUnlinked ==
    \A c \in DOMAIN proc :
        (proc[c].fn = "initiate" /\ proc[c].pc = "done" /\ proc[c].session_id # PyNone)
        => \E i \in Requests(<<M_SESSION, "unlink">>) :
               rpcLog[i].req[6] = <<proc[c].session_id>>

\* the requests sent to bus.bus, in the order sent
RECURSIVE BusRequests(_)
BusRequests(log) ==
    IF log = <<>> THEN <<>>
    ELSE LET rest == BusRequests(SubSeq(log, 1, Len(log) - 1))
             e == log[Len(log)]
         IN  IF e.req[4] = M_BUS THEN Append(rest, e) ELSE rest

BusMethods == <<"_sendmany", "sendmany", "create">>

\* C18: the bus requests of send_call_notification are a prefix of _sendmany,
\* sendmany, create; every one but the last was answered by a fault; it
\* returns True exactly when the last one sent was answered with a value,
\* and False exactly when all three faulted or the user read faulted.
C18_FirstAcceptedMethod ==
    LET bus == BusRequests(rpcLog)
        n == Len(bus)
        l == proc["c1"]
        userFault == Len(rpcLog) >= 1 /\ rpcLog[1].resp.kind = "fault"
    IN  /\ n <= 3
        /\ \A i \in 1..n : bus[i].req[5] = BusMethods[i]
        /\ \A i \in 1..(n - 1) : bus[i].resp.kind = "fault"
        /\ userFault => n = 0
        /\ l.pc = "done" =>
            /\ l.rets = <<PyBool(TRUE)>> <=> (n >= 1 /\ bus[n].resp.kind = "value")
            /\ l.rets = <<PyBool(FALSE)>> <=>
                   (userFault \/ (n = 3 /\ \A i \in 1..3 : bus[i].resp.kind = "fault"))

\* _sendmany and sendmany faulted, create was accepted, True was returned
C18_Witness ==
    /\ proc["c1"].fn = "notify"
    /\ proc["c1"].pc = "done"
    /\ proc["c1"].rets = <<PyBool(TRUE)>>
    /\ Len(BusRequests(rpcLog)) = 3
    /\ last.in[2] = "create"

\* the filtered search of this run was answered with at least one channel
FilterFoundChannels ==
    \E i \in 1..Len(rpcLog) :
        /\ rpcLog[i].req[5] = FilterTarget[2]
        /\ rpcLog[i].resp.kind = "value"
        /\ NonEmpty(rpcLog[i].resp.val)

\* C20: the DELETE on the cache table is executed only in a run whose
\* authenticate returned True and whose filtered search returned at least one
\* channel; otherwise run_refresh returns False with the cache as it was;
\* it returns True only when the table has been deleted and is empty.
C20_ClearOnlyAfterFilter ==
    /\ cache.deletes <= 1
    /\ cache.deletes = 1 => (authRet = PyBool(TRUE) /\ FilterFoundChannels)
    /\ cache.deletes = 0 => cache.rows = cache.rows0
    /\ (pc \in {"true", "false"} /\ ~(authRet = PyBool(TRUE) /\ FilterFoundChannels))
           => (pc = "false" /\ cache.deletes = 0 /\ cache.rows = cache.rows0)
    /\ pc = "true" => (cache.deletes = 1 /\ cache.rows = 0 /\ cache.file)

\* a cache of two channels was cleared after the search found two channels
C20_Witness ==
    /\ pc = "true"
    /\ cache.rows0 = 2
    /\ cache.rows = 0
    /\ cache.deletes = 1
    /\ Len(rpcLog) = 1
    /\ rpcLog[1].resp.val = PyList(<<105, 106>>)

\* C21: in debug-webrtc.py and debug-webrtc-fixed.py, once authenticate has
\* returned True, every invoke made since sent the secret of the
\* authentication request that was accepted, and the next one will.
C21_SecretIsTheAcceptedOne ==
    (variant \in {"tester", "fixer"} /\ authRet = PyBool(TRUE)) =>
        LET accepted == authLog[Len(authLog)]
        IN  /\ accepted.at = nAuth
            /\ accepted.resp.kind = "value"
            /\ Truthy(accepted.resp.val)
            /\ config[SecretKey(variant)] = accepted.req[3]
            /\ \A i \in 1..Len(rpcLog) :
                   rpcLog[i].at = nAuth => rpcLog[i].req[3] = accepted.req[3]

\* the tester's password was rejected, its API key accepted, and the invoke
\* that followed sent the API key
C21_Witness ==
    /\ variant = "tester"
    /\ authRet = PyBool(TRUE)
    /\ Len(authLog) = 2
    /\ authLog[1].req[3] = "pw"
    /\ authLog[2].req[3] = "key"
    /\ Len(rpcLog) = 1
    /\ rpcLog[1].req[3] = "key"

\* the requests of cleanup_existing_sessions: the search, the detail read
\* and the unlink of a list of sessions
IsCleanupRequest(e) ==
    /\ e.req[4] = M_SESSION
    /\ e.req[5] \in {"search", "read", "unlink"}
    /\ e.req[5] = "unlink" => e.req[6][1][1] = "list"

\* C22: cleanup_existing_sessions returns True on every path, and
\* initiate_call of clean-and-call-105.py never returns before the user
\* read; when the channel exists and no request after the cleanup faults it
\* requests the session creation, whatever the cleanup met.
C22_CleanupNeverAborts ==
    \A c \in DOMAIN proc :
        LET l == proc[c]
        IN  /\ (l.fn = "cleanup" /\ l.pc = "done") => l.rets = <<PyBool(TRUE)>>
            /\ (l.fn = "cleancall" /\ l.pc = "done") =>
                /\ Requests(<<M_USERS, "read">>) # {}
                /\ ~IsCleanupRequest(rpcLog[Len(rpcLog)])
                /\ ((TargetChannel \in server.channels
                       /\ \A i \in 1..Len(rpcLog) :
                              IsCleanupRequest(rpcLog[i]) \/ rpcLog[i].resp.kind = "value")
                    => (Requests(<<M_SESSION, "create">>) # {}
                          /\ l.rets = <<PyBool(TRUE)>>))

\* the search of the cleanup faulted, and the call still created session 2
\* and returned True
C22_Witness ==
    /\ proc["c1"].fn = "cleancall"
    /\ proc["c1"].pc = "done"
    /\ proc["c1"].rets = <<PyBool(TRUE)>>
    /\ proc["c1"].session_id = PyInt(2)
    /\ rpcLog[1].req[5] = "search"
    /\ rpcLog[1].resp.kind = "fault"

AbsentChecks ==
    {i \in Requests(<<M_SESSION, "search">>) :
        rpcLog[i].resp.kind = "value" /\ ~NonEmpty(rpcLog[i].resp.val)}

\* C24: the unlink of cleanup_session directly follows a final check that
\* found the session; a periodic check that finds no session is the last
\* request of the function; a periodic check that faults is not: unless
\* some check found the session absent, all DelaySeconds / CheckEvery checks
\* and the final check are made.
C24_UnlinkOnlyAfterFinalCheck ==
    LET l == proc["c1"]
        n == Len(rpcLog)
    IN  /\ \A i \in Requests(<<M_SESSION, "unlink">>) :
               /\ i > 1
               /\ rpcLog[i - 1].req[5] = "search_read"
               /\ rpcLog[i - 1].resp.kind = "value"
               /\ NonEmpty(rpcLog[i - 1].resp.val)
        /\ \A i \in AbsentChecks : i = n /\ l.pc = "done"
        /\ (l.pc = "done" /\ AbsentChecks = {}) =>
               /\ Cardinality(Requests(<<M_SESSION, "search">>)) = DelaySeconds \div CheckEvery
               /\ Requests(<<M_SESSION, "search_read">>) # {}

\* the first periodic check faulted, the countdown went on, the final check
\* found the session and it was unlinked
C24_Witness ==
    /\ proc["c1"].fn = "cleanup_session"
    /\ proc["c1"].pc = "done"
    /\ rpcLog[1].resp.kind = "fault"
    /\ Len(rpcLog) = 8
    /\ rpcLog[8].req[5] = "unlink"
    /\ server.sessions = {}

\* C25: run_analysis never ends in an uncaught exception, and whenever
\* test_channel_member_creation did not obtain a channel, a member and a
\* partner, it reports that channel member creation failed and no RTC
\* session create is requested.
C25_MemberFailureReported ==
    \A c \in DOMAIN proc :
        LET l == proc[c]
        IN  l.fn = "quick" =>
            /\ l.pc # "raised"
            /\ (l.pc \in {"done", "raised"} /\ l.result # <<>>
                  /\ ~(Len(l.result) = 3 /\ \A k \in 1..Len(l.result) : Truthy(l.result[k])))
               => /\ l.report = "member creation failed"
                  /\ Requests(<<M_SESSION, "create">>) = {}

\* a membership whose fold_state is 'closed'; no value counts as 'open'
IsClosed(m) == m.fold_state = PyStr("closed")

\* the channel ids of the memberships that are not closed, in order
RECURSIVE NotClosed(_)
NotClosed(ms) ==
    IF ms = <<>> THEN <<>>
    ELSE (IF IsClosed(Head(ms)) THEN <<>> ELSE <<ChannelIdOf(Head(ms))>>)
             \o NotClosed(Tail(ms))

RECURSIVE SumOf(_)
SumOf(f) ==
    IF DOMAIN f = {} THEN 0
    ELSE LET k == CHOOSE x \in DOMAIN f : TRUE
         IN  f[k] + SumOf([x \in DOMAIN f \ {k} |-> f[x]])

\* C26: test_channel_memberships returns the channel ids of the memberships
\* whose fold_state is not 'closed', in membership order, a membership
\* without fold_state counting as 'open'; the per-state counts sum to the
\* number of memberships, and the visible channels number the memberships
\* minus those counted as 'closed'.
C26_VisibleAreNotClosed ==
    \A c \in DOMAIN proc :
        LET l == proc[c]
            ms == l.existing[2]
            closed == IF PyStr("closed") \in DOMAIN l.counts
                      THEN l.counts[PyStr("closed")] ELSE 0
        IN  (l.fn = "filter" /\ l.pc = "done") =>
            /\ l.result = NotClosed(ms)
            /\ l.rets = <<PyList(NotClosed(ms))>>
            /\ SumOf(l.counts) = Len(ms)
            /\ Len(l.result) = Len(ms) - closed
            /\ \A k \in DOMAIN l.counts : k \in {PyStr("open"), PyStr("folded"), PyStr("closed")}
            /\ PyStr("open") \in DOMAIN l.counts =>
                   l.counts[PyStr("open")] =
                       Cardinality({i \in 1..Len(ms) :
                           ms[i].fold_state \in {PyStr("open"), PyBool(FALSE), PyNone, PyStr("")}})

\* a membership without fold_state and a closed one: the first is visible
C26_Witness ==
    /\ proc["c1"].fn = "filter"
    /\ proc["c1"].pc = "done"
    /\ Len(proc["c1"].existing[2]) = 2
    /\ proc["c1"].existing[2][1].fold_state = PyBool(FALSE)
    /\ proc["c1"].existing[2][1].channel_id = Many2One(OtherChannel)
    /\ proc["c1"].existing[2][2].fold_state = PyStr("closed")
    /\ proc["c1"].result = <<PyInt(OtherChannel)>>

\* the probe of methods_to_test[k] is request k + 1, after the channel search
ProbeOf(k) == rpcLog[k + 1]

\* C27: a probed method is recorded as missing exactly when its call raised
\* a fault whose text contains 'does not exist'; the methods are probed in
\* order whatever the earlier results, all four before the function returns
\* with a channel found; it returns True exactly when some method is
\* recorded as existing.
C27_MissingIffDoesNotExist ==
    LET l == proc["c1"]
        probed == Len(rpcLog) - 1
    IN  l.fn = "probe" =>
        /\ DOMAIN l.method_results = {methods_to_test[k] : k \in 1..probed}
        /\ \A k \in 1..probed :
               /\ ProbeOf(k).req[5] = methods_to_test[k]
               /\ ProbeOf(k).req[6] = <<l.channel_id>>
               /\ l.method_results[methods_to_test[k]] = FALSE
                      <=> (ProbeOf(k).resp.kind = "fault"
                             /\ Contains(ProbeOf(k).resp.val, "does not exist"))
        /\ l.pc = "done" =>
               /\ l.channel_id # PyNone => probed = Len(methods_to_test)
               /\ l.rets = <<PyBool(\E m \in DOMAIN l.method_results : l.method_results[m])>>

\* the first method is unknown, the second is refused for another reason, the
\* third succeeds, the fourth is unknown: three probes after a missing one
C27_Witness ==
    /\ proc["c1"].fn = "probe"
    /\ proc["c1"].pc = "done"
    /\ Len(rpcLog) = 5
    /\ proc["c1"].method_results["rtc_join_call"] = FALSE
    /\ proc["c1"].method_results["rtc_leave_call"] = TRUE
    /\ rpcLog[3].resp.kind = "fault"
    /\ rpcLog[4].resp.kind = "value"
    /\ proc["c1"].method_results["mobile_answer_webrtc_call"] = FALSE
    /\ proc["c1"].rets = <<PyBool(TRUE)>>

\* C28: when mobile_start_webrtc_call has returned a result, its session_id
\* is None only if no RTC session was created and active_webrtc_session is
\* what it was; and if a session was created, the session_id returned is
\* that session and active_webrtc_session points to it.
C28_NoneOnlyIfNothingCreated ==
    \A c \in DOMAIN proc :
        LET l == proc[c]
        IN  (l.fn = "mobile_start" /\ l.pc = "done") =>
            /\ l.rets = <<PyNone>> =>
                   (server.sessions = l.before.sessions /\ server.active = l.before.active)
            /\ server.sessions # l.before.sessions =>
                   (l.rets = <<l.created>> /\ server.active = l.created)

====
